---- MODULE Spec2Model ----
(***************************************************************************)
(* mod_random: token generation with a per-definition TTL cache            *)
(* (mod_random_token.c), the encoders (mod_random_encode.c), the metadata  *)
(* signer (mod_random_crypto.c), directive handlers and configuration      *)
(* merge (mod_random_config.c) and the request hook of mod_random.c.       *)
(*                                                                         *)
(* Time is apr_time_t: a count of clock ticks, TicksPerSec of them to the  *)
(* second (APR: microseconds).  Strings are sequences of atoms [k, v]; a   *)
(* NULL char pointer is the reserved string NULLSTR.  The heap is the      *)
(* sequence of random_token_spec nodes allocated so far: a node's address  *)
(* is its index and NULL is 0.  A character is the atom ["c", code]; the   *)
(* other atoms stand for a part of a string whose characters play no role. *)
(* lastCall is the last call of an encoder or of a directive handler with  *)
(* its arguments and its result.                                           *)
(***************************************************************************)
EXTENDS Integers, Sequences, FiniteSets, TLC

VARIABLES clock, conf, heap, mutex, th, req, lastWriter, legacy, lastCall

vars == <<clock, conf, heap, mutex, th, req, lastWriter, legacy, lastCall>>

(* ------------------------------ bounds --------------------------------- *)
\* clock ticks per second (scaled down from APR's 1000000 usec per second)
TicksPerSec == 2
\* the clock runs over 0..MaxClock ticks
MaxClock == 2
\* the CSPRNG fills the buffer with one of the values 0..MaxRandom
MaxRandom == 1
\* the failing mutex creation of a merge is among the first MaxFailAt
MaxFailAt == 2
\* the encoders are given up to MaxLen bytes
MaxLen == 3
\* a scope is given up to MaxDirectives directives
MaxDirectives == 2

(* ------------------- constants of mod_random_types.h ------------------- *)
RANDOM_LENGTH_DEFAULT == 16
RANDOM_LENGTH_MIN == 1
RANDOM_LENGTH_MAX == 1024
RANDOM_LENGTH_UNSET == -1
RANDOM_ENABLED_UNSET == -1
RANDOM_FORMAT_UNSET == -1
RANDOM_GROUPING_UNSET == -1
RANDOM_EXPIRY_UNSET == -1
RANDOM_TTL_UNSET == -1
RANDOM_MAX_TOKENS == 50
RANDOM_TTL_MAX_SECONDS == 86400
RANDOM_EXPIRY_MAX_SECONDS == 31536000
RANDOM_GROUPING_MAX == 128
RANDOM_FORMAT_BASE64 == 0
RANDOM_FORMAT_HEX == 1
RANDOM_FORMAT_BASE64URL == 2
RANDOM_FORMAT_CUSTOM == 3

(* ------------------------------ values --------------------------------- *)
NULL == 0
\* the worker threads of the host
Threads == {1, 2}
RandomBytes == 0..MaxRandom

\* a one-atom string
Atom(k, v) == <<[k |-> k, v |-> v]>>
\* the NULL char pointer
NULLSTR == Atom("NULL", 0)
\* a character, and the string of the characters with the given codes
Chr(code) == [k |-> "c", v |-> code]
Str(codes) == [i \in DOMAIN codes |-> Chr(codes[i])]
\* no encoder and no directive handler was called yet
NoCall == [op |-> "none"]

\* apr_time_sec: C integer division, which truncates toward zero
apr_time_sec(t) == IF t >= 0 THEN t \div TicksPerSec ELSE -((-t) \div TicksPerSec)

(* ------------------------------ encoders ------------------------------- *)
\* character codes
Dash == 45
Colon == 58
Plus == 43
Slash == 47
Underscore == 95
Equals == 61

\* "0123456789abcdef" (mod_random_encode.c 13)
hex_chars == Str(<<48, 49, 50, 51, 52, 53, 54, 55, 56, 57, 97, 98, 99, 100, 101, 102>>)

\* hex with the low nibble first
random_encode_hex_low_first(data) ==
    [j \in 1..(2 * Len(data)) |->
        IF j % 2 = 1 THEN hex_chars[(data[(j + 1) \div 2] % 16) + 1]
        ELSE hex_chars[((data[j \div 2] \div 16) % 16) + 1]]

\* random_encode_hex (11-25): data is the sequence of bytes
random_encode_hex(data) ==
    [j \in 1..(2 * Len(data)) |->
        IF j % 2 = 1 THEN hex_chars[((data[(j + 1) \div 2] \div 16) % 16) + 1]
        ELSE hex_chars[(data[j \div 2] % 16) + 1]]

\* the base64 alphabet of apr_base64_encode: A-Z a-z 0-9 + /
basis_64 ==
    Str([i \in 1..64 |-> IF i <= 26 THEN 64 + i
                         ELSE IF i <= 52 THEN 70 + i
                         ELSE IF i <= 62 THEN i - 5
                         ELSE IF i = 63 THEN Plus ELSE Slash])

\* apr_base64_encode: three bytes to four characters, '=' padding
RECURSIVE apr_base64_encode(_)
apr_base64_encode(data) ==
    IF Len(data) = 0 THEN << >>
    ELSE IF Len(data) = 1 THEN
        << basis_64[(data[1] \div 4) + 1], basis_64[((data[1] % 4) * 16) + 1],
           Chr(Equals), Chr(Equals) >>
    ELSE IF Len(data) = 2 THEN
        << basis_64[(data[1] \div 4) + 1],
           basis_64[((data[1] % 4) * 16 + data[2] \div 16) + 1],
           basis_64[((data[2] % 16) * 4) + 1], Chr(Equals) >>
    ELSE
        << basis_64[(data[1] \div 4) + 1],
           basis_64[((data[1] % 4) * 16 + data[2] \div 16) + 1],
           basis_64[((data[2] % 16) * 4 + data[3] \div 64) + 1],
           basis_64[(data[3] % 64) + 1] >>
        \o apr_base64_encode(SubSeq(data, 4, Len(data)))

\* the loop of lines 39-46 without its '=' branch
RECURSIVE to_base64url_padded(_)
to_base64url_padded(str) ==
    IF str = << >> THEN << >>
    ELSE << IF str[1].v = Plus THEN Chr(Dash)
            ELSE IF str[1].v = Slash THEN Chr(Underscore) ELSE str[1] >>
         \o to_base64url_padded(Tail(str))

\* the loop of lines 39-46: + to -, / to _, the string ends at the first =
RECURSIVE to_base64url(_)
to_base64url(str) ==
    IF str = << >> \/ str[1].v = Equals THEN << >>
    ELSE << IF str[1].v = Plus THEN Chr(Dash)
            ELSE IF str[1].v = Slash THEN Chr(Underscore) ELSE str[1] >>
         \o to_base64url(Tail(str))

\* random_encode_base64url (28-49)
random_encode_base64url(data) == to_base64url(apr_base64_encode(data))

\* 2^n
RECURSIVE Pow2(_)
Pow2(n) == IF n = 0 THEN 1 ELSE 2 * Pow2(n - 1)

\* lines 70-74: bits per symbol
RECURSIVE bits_needed_from(_, _)
bits_needed_from(bits_needed, alphabet_len) ==
    IF Pow2(bits_needed) < alphabet_len THEN bits_needed_from(bits_needed + 1, alphabet_len)
    ELSE bits_needed

\* lines 76-84: the offset of `end' in the output buffer
end_of_buffer(length, bits_needed, grouping) ==
    LET max_output_len == (length * 8) \div bits_needed + length * 2 + 10
    IN (IF grouping > 0 THEN max_output_len + max_output_len \div grouping + 10
        ELSE max_output_len) - 1

\* the symbol of an index without the test of lines 107 and 122: an index
\* past the alphabet reads what lies behind it
symbol_at_unchecked(alphabet, index) ==
    IF index < Len(alphabet) THEN << alphabet[index + 1] >> ELSE << Chr(0) >>

\* lines 107-108 and 122-123: an index past the alphabet emits nothing
symbol_at(alphabet, index) ==
    IF index < Len(alphabet) THEN << alphabet[index + 1] >> ELSE << >>

\* the while loop of lines 95-116 for byte i; e holds data, alphabet,
\* grouping, bits_needed and end, st holds value, bits_available, pos, the
\* output written so far and whether the loop returned at line 101
RECURSIVE emit_symbols(_, _, _)
emit_symbols(e, st, i) ==
    IF st.returned \/ st.bits_available < e.bits_needed THEN st
    ELSE IF Len(st.out) >= e.end - 2 THEN [st EXCEPT !.returned = TRUE]
    ELSE LET bits_available == st.bits_available - e.bits_needed
             index == (st.value \div Pow2(bits_available)) % Pow2(e.bits_needed)
             symbol == symbol_at(e.alphabet, index)
             pos == st.pos + Len(symbol)
             p == Len(st.out) + Len(symbol)
             separator == IF symbol # << >> /\ e.grouping > 0 /\ pos % e.grouping = 0
                             /\ i < Len(e.data) - 1 /\ p < e.end - 1
                          THEN << Chr(Dash) >> ELSE << >>
         IN emit_symbols(e, [st EXCEPT !.bits_available = bits_available, !.pos = pos,
                                       !.out = st.out \o symbol \o separator], i)

\* the for loop of lines 91-117 from byte i on (i counts from 0); of the 64
\* bits of value only the low 16 are ever read, and only they are kept
RECURSIVE encode_bytes(_, _, _)
encode_bytes(e, st, i) ==
    IF st.returned \/ i >= Len(e.data) THEN st
    ELSE encode_bytes(e,
            emit_symbols(e, [st EXCEPT !.value = (st.value * 256 + e.data[i + 1]) % 65536,
                                       !.bits_available = st.bits_available + 8], i),
            i + 1)

\* random_encode_custom_alphabet (52-129)
random_encode_custom_alphabet(data, alphabet, grouping) ==
    IF alphabet = NULLSTR \/ Len(alphabet) = 0 THEN random_encode_hex(data)
    ELSE IF Len(alphabet) < 2 THEN random_encode_hex(data)
    ELSE LET bits_needed == bits_needed_from(0, Len(alphabet))
             e == [data |-> data, alphabet |-> alphabet, grouping |-> grouping,
                   bits_needed |-> bits_needed,
                   end |-> end_of_buffer(Len(data), bits_needed, grouping)]
             st == encode_bytes(e, [value |-> 0, bits_available |-> 0, pos |-> 0,
                                    out |-> << >>, returned |-> FALSE], 0)
         IN IF st.returned THEN st.out
            ELSE IF st.bits_available > 0 /\ Len(st.out) < e.end
            THEN st.out \o symbol_at(alphabet,
                              (st.value * Pow2(bits_needed - st.bits_available))
                                  % Pow2(bits_needed))
            ELSE st.out

(* ---------------- random_generate_token_from_spec ---------------------- *)
(* mod_random_token.c.  `spec' is the address of the token definition (or  *)
(* NULL) and `cfg' the random_config record; the default_* arguments are   *)
(* what the caller passes.                                                 *)

\* line 56 and lines 63-69
final_length(spec, default_length) ==
    LET v == IF spec # NULL /\ heap[spec].length # RANDOM_LENGTH_UNSET
             THEN heap[spec].length ELSE default_length
    IN IF v < RANDOM_LENGTH_MIN \/ v > RANDOM_LENGTH_MAX THEN RANDOM_LENGTH_DEFAULT ELSE v

\* line 57 and lines 71-77
final_format(spec, default_format) ==
    LET v == IF spec # NULL /\ heap[spec].format # RANDOM_FORMAT_UNSET
             THEN heap[spec].format ELSE default_format
    IN IF v < RANDOM_FORMAT_BASE64 \/ v > RANDOM_FORMAT_CUSTOM THEN RANDOM_FORMAT_BASE64 ELSE v

\* line 58
final_timestamp(spec, default_timestamp) ==
    IF spec # NULL /\ heap[spec].include_timestamp # RANDOM_ENABLED_UNSET
    THEN heap[spec].include_timestamp ELSE default_timestamp

\* a faulty variant: the prefix of the scope wins over the definition's
final_prefix_scope_first(spec, default_prefix) ==
    IF default_prefix # NULLSTR \/ spec = NULL THEN default_prefix ELSE heap[spec].prefix

\* line 59
final_prefix(spec, default_prefix) ==
    IF spec # NULL /\ heap[spec].prefix # NULLSTR THEN heap[spec].prefix ELSE default_prefix

\* line 60
final_suffix(spec, default_suffix) ==
    IF spec # NULL /\ heap[spec].suffix # NULLSTR THEN heap[spec].suffix ELSE default_suffix

\* a faulty variant: a TTL above the maximum is used as it is
final_ttl_unbounded(spec, default_ttl) ==
    LET v == IF spec # NULL /\ heap[spec].ttl_seconds # RANDOM_TTL_UNSET
             THEN heap[spec].ttl_seconds ELSE default_ttl
    IN IF v < 0 /\ v # RANDOM_TTL_UNSET THEN 0 ELSE v

\* line 61 and lines 79-90
final_ttl(spec, default_ttl) ==
    LET v == IF spec # NULL /\ heap[spec].ttl_seconds # RANDOM_TTL_UNSET
             THEN heap[spec].ttl_seconds ELSE default_ttl
    IN IF v < 0 /\ v # RANDOM_TTL_UNSET THEN 0
       ELSE IF v > RANDOM_TTL_MAX_SECONDS THEN RANDOM_TTL_MAX_SECONDS ELSE v

\* line 138 and lines 142-153
final_alphabet_grouping(cfg) ==
    LET v == IF cfg.alphabet_grouping # RANDOM_GROUPING_UNSET THEN cfg.alphabet_grouping ELSE 0
    IN IF v < 0 THEN 0 ELSE IF v > RANDOM_GROUPING_MAX THEN RANDOM_GROUPING_MAX ELSE v

\* line 139 and lines 155-166
final_expiry_seconds(cfg) ==
    LET v == IF cfg.expiry_seconds # RANDOM_EXPIRY_UNSET THEN cfg.expiry_seconds ELSE 0
    IN IF v < 0 /\ v # RANDOM_EXPIRY_UNSET THEN 0
       ELSE IF v > RANDOM_EXPIRY_MAX_SECONDS THEN RANDOM_EXPIRY_MAX_SECONDS ELSE v

\* line 140
final_encode_metadata(cfg) ==
    IF cfg.encode_metadata # RANDOM_ENABLED_UNSET THEN cfg.encode_metadata ELSE 0

\* lines 168-173: CUSTOM without an alphabet is generated as BASE64
generation_format(format, cfg) ==
    IF format = RANDOM_FORMAT_CUSTOM /\ cfg.custom_alphabet = NULLSTR
    THEN RANDOM_FORMAT_BASE64 ELSE format

\* the encoder random_generate_string_ex selects (mod_random_encode.c 150-169,
\* and the hex fallback of random_encode_custom_alphabet, 60-68)
EncodingOf(format, alphabet) ==
    CASE format = RANDOM_FORMAT_HEX -> "hex"
      [] format = RANDOM_FORMAT_BASE64URL -> "base64url"
      [] format = RANDOM_FORMAT_CUSTOM ->
            IF alphabet = NULLSTR \/ Len(alphabet) < 2 THEN "hex" ELSE "custom"
      [] OTHER -> "base64"

\* random_generate_string_ex: NULL when apr_generate_random_bytes did not
\* succeed, else the encoding of the bytes drawn
random_generate_string_ex(length, format, alphabet, grouping, rv_ok, bytes) ==
    IF ~rv_ok THEN NULLSTR ELSE Atom(EncodingOf(format, alphabet), bytes)

\* "%ld" of apr_psprintf: the decimal digits of n, '-' first when n < 0
RECURSIVE Digits(_)
Digits(n) ==
    IF n < 10 THEN << Chr(48 + n) >> ELSE Digits(n \div 10) \o << Chr(48 + (n % 10)) >>
FormatLong(n) == IF n < 0 THEN << Chr(Dash) >> \o Digits(-n) ELSE Digits(n)

HMAC_SHA256_DIGESTSIZE == 32

\* a number for an atom of a string: the code of a character, or for a part
\* that stands for many characters a number past the character codes
AtomCode(a) == IF a.k = "c" THEN a.v ELSE 256 + 7 * a.v + Len(a.k)

\* stand-in for OpenSSL's HMAC(EVP_sha256(), ...), which is outside the
\* repository: 32 bytes that are a function of the key and of the data, and
\* that differ when either differs in the cases at hand
RECURSIVE Absorb(_, _)
Absorb(h, str) ==
    IF str = << >> THEN h ELSE Absorb((h * 31 + AtomCode(str[1]) + 1) % 65521, Tail(str))

\* random_hmac_sha256 (mod_random_crypto.c 14-24)
random_hmac_sha256(key, data) ==
    LET h == Absorb(Absorb(Len(key) + 1, key) + 7, data)
    IN [i \in 1..HMAC_SHA256_DIGESTSIZE |-> ((h + i) * (i + 6) + h \div 251) % 256]

\* the signature computed over the token alone
random_encode_with_metadata_unbound(token, expiry_seconds, signing_key, time_now) ==
    LET expiry_time == apr_time_sec(time_now) + expiry_seconds
    IN IF signing_key # NULLSTR /\ Len(signing_key) > 0
       THEN FormatLong(expiry_time) \o << Chr(Colon) >> \o token \o << Chr(Colon) >>
            \o random_encode_hex(random_hmac_sha256(signing_key, token))
       ELSE FormatLong(expiry_time) \o << Chr(Colon) >> \o token

\* random_encode_with_metadata (mod_random_crypto.c 27-60); time_now is what
\* apr_time_now() returns at line 36
random_encode_with_metadata(token, expiry_seconds, signing_key, time_now) ==
    LET now_sec == apr_time_sec(time_now)
        expiry_time == now_sec + expiry_seconds
    IN IF signing_key # NULLSTR /\ Len(signing_key) > 0
       THEN LET payload == FormatLong(expiry_time) \o << Chr(Colon) >> \o token
                hmac_hex == random_encode_hex(random_hmac_sha256(signing_key, payload))
            IN FormatLong(expiry_time) \o << Chr(Colon) >> \o token \o << Chr(Colon) >>
               \o hmac_hex
       ELSE FormatLong(expiry_time) \o << Chr(Colon) >> \o token

\* lines 187-191
with_timestamp(random_string, timestamp_flag, now) ==
    IF timestamp_flag # 0
    THEN FormatLong(apr_time_sec(now)) \o << Chr(Dash) >> \o random_string
    ELSE random_string

\* a faulty variant: the signer is called whether or not a key is configured
with_metadata_keyless(random_string, cfg, time_now) ==
    IF final_encode_metadata(cfg) # 0 /\ final_expiry_seconds(cfg) > 0
    THEN random_encode_with_metadata(random_string, final_expiry_seconds(cfg),
                                     cfg.signing_key, time_now)
    ELSE random_string

\* lines 193-207
with_metadata(random_string, cfg, time_now) ==
    IF final_encode_metadata(cfg) # 0 /\ final_expiry_seconds(cfg) > 0
       /\ cfg.signing_key # NULLSTR
    THEN random_encode_with_metadata(random_string, final_expiry_seconds(cfg),
                                     cfg.signing_key, time_now)
    ELSE random_string

\* lines 209-217
with_affixes(random_string, prefix, suffix) ==
    IF prefix # NULLSTR \/ suffix # NULLSTR
    THEN (IF prefix # NULLSTR THEN prefix ELSE << >>) \o random_string
         \o (IF suffix # NULLSTR THEN suffix ELSE << >>)
    ELSE random_string

\* a faulty variant: the entry is still served when elapsed equals the TTL
within_ttl_inclusive(elapsed, ttl) == elapsed <= ttl

\* line 115
within_ttl(elapsed, ttl) == elapsed < ttl

(* the locals of one call *)
CfgOf(t) == conf[th[t].cfg]
TTLOf(t) == final_ttl(th[t].spec, CfgOf(t).ttl_seconds)
TimestampOf(t) == final_timestamp(th[t].spec, CfgOf(t).include_timestamp)
MutexOf(t) == heap[th[t].spec].cache_mutex

\* lines 98 and 220: the cache is used when the TTL is positive and the
\* caller passed a mutex (the cell and the pool are fields of the definition)
cache_enabled(t) == TTLOf(t) > 0 /\ th[t].spec # NULL /\ MutexOf(t) # NULL

IdleThread ==
    [pc |-> "idle", cfg |-> "none", spec |-> NULL, now |-> 0, final_length |-> 0,
     final_format |-> 0, final_ttl |-> 0,
     random_string |-> NULLSTR, final_token |-> NULLSTR, use_cached |-> 0,
     rv_read |-> "none", rv_write |-> "none", rv_random |-> "none"]

\* what the call returns: NULL after a CSPRNG failure (line 184)
Returned(t) == IF th[t].pc = "failed" THEN NULLSTR ELSE th[t].final_token

\* lines 55-98: resolve the parameters, read the clock once
Call(t, c, a) ==
    /\ th[t].pc = "idle"
    /\ LET ttl == final_ttl(a, conf[c].ttl_seconds)
           ts == final_timestamp(a, conf[c].include_timestamp)
           t1 == [IdleThread EXCEPT !.cfg = c, !.spec = a,
                     !.final_length = final_length(a, conf[c].length),
                     !.final_format = final_format(a, conf[c].format),
                     !.final_ttl = ttl,
                     !.now = IF ttl > 0 \/ ts # 0 THEN clock ELSE 0]
       IN th' = [th EXCEPT ![t] =
                   [t1 EXCEPT !.pc = IF ttl > 0 /\ a # NULL /\ heap[a].cache_mutex # NULL
                                     THEN "r_lock" ELSE "gen"]]
    /\ UNCHANGED <<lastCall, legacy, clock, conf, heap, mutex, lastWriter>>

\* line 99, apr_thread_mutex_lock returns APR_SUCCESS
ReadLock(t) ==
    /\ th[t].pc = "r_lock"
    /\ mutex[MutexOf(t)] = 0
    /\ mutex' = [mutex EXCEPT ![MutexOf(t)] = t]
    /\ th' = [th EXCEPT ![t].pc = "r_check", ![t].rv_read = "ok"]
    /\ UNCHANGED <<lastCall, legacy, clock, conf, heap, req, lastWriter>>

\* a faulty variant: the status of apr_thread_mutex_lock is ignored
ReadLockFailIgnored(t) ==
    /\ th[t].pc = "r_lock"
    /\ th' = [th EXCEPT ![t].pc = "r_check", ![t].rv_read = "fail"]
    /\ UNCHANGED <<lastCall, legacy, clock, conf, heap, mutex, req, lastWriter>>

\* a faulty variant: a failing apr_thread_mutex_lock ends the call
ReadLockFailFatal(t) ==
    /\ th[t].pc = "r_lock"
    /\ th' = [th EXCEPT ![t].pc = "failed", ![t].rv_read = "fail"]
    /\ UNCHANGED <<lastCall, legacy, clock, conf, heap, mutex, req, lastWriter>>

\* lines 100-103, apr_thread_mutex_lock fails: the cache read is skipped
ReadLockFail(t) ==
    /\ th[t].pc = "r_lock"
    /\ th' = [th EXCEPT ![t].pc = "gen", ![t].rv_read = "fail"]
    /\ UNCHANGED <<lastCall, legacy, clock, conf, heap, mutex, req, lastWriter>>

\* a faulty variant: a hit renews the time of the cell
ReadCheckRenewing(t) ==
    /\ th[t].pc = "r_check"
    /\ LET a == th[t].spec
           elapsed == apr_time_sec(th[t].now - heap[a].cache_time)
       IN IF heap[a].cached_token = NULLSTR
          THEN /\ th' = [th EXCEPT ![t].pc = "r_unlock"]
               /\ UNCHANGED <<heap, lastWriter>>
          ELSE IF elapsed < 0
          THEN /\ heap' = [heap EXCEPT ![a].cached_token = NULLSTR]
               /\ th' = [th EXCEPT ![t].pc = "r_inval"]
               /\ lastWriter' = [lastWriter EXCEPT ![a] = t]
          ELSE IF within_ttl(elapsed, TTLOf(t))
          THEN /\ th' = [th EXCEPT ![t].pc = "r_unlock", ![t].use_cached = 1,
                                   ![t].final_token = heap[a].cached_token]
               /\ heap' = [heap EXCEPT ![a].cache_time = th[t].now]
               /\ UNCHANGED lastWriter
          ELSE /\ th' = [th EXCEPT ![t].pc = "r_unlock"]
               /\ UNCHANGED <<heap, lastWriter>>
    /\ UNCHANGED <<lastCall, legacy, clock, conf, mutex, req>>

\* lines 105-121, up to the first store of the invalidation (line 113)
ReadCheck(t) ==
    /\ th[t].pc = "r_check"
    /\ LET a == th[t].spec
           elapsed == apr_time_sec(th[t].now - heap[a].cache_time)
       IN IF heap[a].cached_token = NULLSTR
          THEN /\ th' = [th EXCEPT ![t].pc = "r_unlock"]
               /\ UNCHANGED <<heap, lastWriter>>
          ELSE IF elapsed < 0
          THEN /\ heap' = [heap EXCEPT ![a].cached_token = NULLSTR]
               /\ th' = [th EXCEPT ![t].pc = "r_inval"]
               /\ lastWriter' = [lastWriter EXCEPT ![a] = t]
          ELSE IF within_ttl(elapsed, TTLOf(t))
          THEN /\ th' = [th EXCEPT ![t].pc = "r_unlock", ![t].use_cached = 1,
                                   ![t].final_token = heap[a].cached_token]
               /\ UNCHANGED <<heap, lastWriter>>
          ELSE /\ th' = [th EXCEPT ![t].pc = "r_unlock"]
               /\ UNCHANGED <<heap, lastWriter>>
    /\ UNCHANGED <<lastCall, legacy, clock, conf, mutex, req>>

\* a faulty variant: the invalidation leaves the lookup without the unlock
ReadInvalidateLeaving(t) ==
    /\ th[t].pc = "r_inval"
    /\ heap' = [heap EXCEPT ![th[t].spec].cache_time = 0]
    /\ th' = [th EXCEPT ![t].pc = "gen"]
    /\ UNCHANGED <<lastCall, legacy, clock, conf, mutex, req, lastWriter>>

\* line 114
ReadInvalidate(t) ==
    /\ th[t].pc = "r_inval"
    /\ heap' = [heap EXCEPT ![th[t].spec].cache_time = 0]
    /\ th' = [th EXCEPT ![t].pc = "r_unlock"]
    /\ UNCHANGED <<lastCall, legacy, clock, conf, mutex, req, lastWriter>>

\* a faulty variant: the unlock is on the cache-hit path only
ReadUnlockOnHitOnly(t) ==
    /\ th[t].pc = "r_unlock"
    /\ mutex' = IF th[t].use_cached = 1 THEN [mutex EXCEPT ![MutexOf(t)] = 0] ELSE mutex
    /\ th' = [th EXCEPT ![t].pc = IF th[t].use_cached = 1 THEN "done" ELSE "gen"]
    /\ UNCHANGED <<lastCall, legacy, clock, conf, heap, req, lastWriter>>

\* lines 122-127
ReadUnlock(t) ==
    /\ th[t].pc = "r_unlock"
    /\ mutex' = [mutex EXCEPT ![MutexOf(t)] = 0]
    /\ th' = [th EXCEPT ![t].pc = IF th[t].use_cached = 1 THEN "done" ELSE "gen"]
    /\ UNCHANGED <<lastCall, legacy, clock, conf, heap, req, lastWriter>>

\* a faulty variant: the NULL check of lines 180-185 is missing
GenerateUnchecked(t) ==
    /\ th[t].pc = "gen"
    /\ \E rv_ok \in BOOLEAN, bytes \in RandomBytes :
         th' = [th EXCEPT ![t].random_string = Atom("base64", bytes),
                          ![t].rv_random = IF rv_ok THEN "ok" ELSE "fail",
                          ![t].pc = "stamp"]
    /\ UNCHANGED <<lastCall, legacy, clock, conf, heap, mutex, req, lastWriter>>

\* lines 137-185: the CSPRNG succeeds or fails
Generate(t) ==
    /\ th[t].pc = "gen"
    /\ \E rv_ok \in BOOLEAN, bytes \in RandomBytes :
         LET cfg == CfgOf(t)
             fmt == generation_format(final_format(th[t].spec, cfg.format), cfg)
             s == random_generate_string_ex(th[t].final_length, fmt,
                      cfg.custom_alphabet, final_alphabet_grouping(cfg), rv_ok, bytes)
         IN th' = [th EXCEPT ![t].random_string = s,
                             ![t].rv_random = IF rv_ok THEN "ok" ELSE "fail",
                             ![t].pc = IF s = NULLSTR THEN "failed" ELSE "stamp"]
    /\ UNCHANGED <<lastCall, legacy, clock, conf, heap, mutex, req, lastWriter>>

\* lines 187-191
Stamp(t) ==
    /\ th[t].pc = "stamp"
    /\ th' = [th EXCEPT ![t].pc = "sign",
                ![t].random_string = with_timestamp(@, TimestampOf(t), th[t].now)]
    /\ UNCHANGED <<lastCall, legacy, clock, conf, heap, mutex, req, lastWriter>>

\* lines 193-207; random_encode_with_metadata reads the clock itself
Sign(t) ==
    /\ th[t].pc = "sign"
    /\ th' = [th EXCEPT ![t].pc = "affix",
                ![t].random_string = with_metadata(@, CfgOf(t), clock)]
    /\ UNCHANGED <<lastCall, legacy, clock, conf, heap, mutex, req, lastWriter>>

\* lines 209-220
Affix(t) ==
    /\ th[t].pc = "affix"
    /\ th' = [th EXCEPT ![t].pc = IF cache_enabled(t) THEN "w_lock" ELSE "done",
                ![t].random_string = NULLSTR,
                ![t].final_token = with_affixes(th[t].random_string,
                     final_prefix(th[t].spec, CfgOf(t).prefix),
                     final_suffix(th[t].spec, CfgOf(t).suffix))]
    /\ UNCHANGED <<lastCall, legacy, clock, conf, heap, mutex, req, lastWriter>>

\* line 221, apr_thread_mutex_lock returns APR_SUCCESS
WriteLock(t) ==
    /\ th[t].pc = "w_lock"
    /\ mutex[MutexOf(t)] = 0
    /\ mutex' = [mutex EXCEPT ![MutexOf(t)] = t]
    /\ th' = [th EXCEPT ![t].pc = "w_token", ![t].rv_write = "ok"]
    /\ UNCHANGED <<lastCall, legacy, clock, conf, heap, req, lastWriter>>

\* lines 222-225, apr_thread_mutex_lock fails: the cache write is skipped
WriteLockFail(t) ==
    /\ th[t].pc = "w_lock"
    /\ th' = [th EXCEPT ![t].pc = "done", ![t].rv_write = "fail"]
    /\ UNCHANGED <<lastCall, legacy, clock, conf, heap, mutex, req, lastWriter>>

\* line 227
WriteToken(t) ==
    /\ th[t].pc = "w_token"
    /\ heap' = [heap EXCEPT ![th[t].spec].cached_token = th[t].final_token]
    /\ th' = [th EXCEPT ![t].pc = "w_time"]
    /\ lastWriter' = [lastWriter EXCEPT ![th[t].spec] = t]
    /\ UNCHANGED <<lastCall, legacy, clock, conf, mutex, req>>

\* a faulty variant: the cache time is a second reading of the clock
WriteTimeReadsClock(t) ==
    /\ th[t].pc = "w_time"
    /\ heap' = [heap EXCEPT ![th[t].spec].cache_time = clock]
    /\ th' = [th EXCEPT ![t].pc = "w_unlock"]
    /\ UNCHANGED <<lastCall, legacy, clock, conf, mutex, req, lastWriter>>

\* line 230
WriteTime(t) ==
    /\ th[t].pc = "w_time"
    /\ heap' = [heap EXCEPT ![th[t].spec].cache_time = th[t].now]
    /\ th' = [th EXCEPT ![t].pc = "w_unlock"]
    /\ UNCHANGED <<lastCall, legacy, clock, conf, mutex, req, lastWriter>>

\* line 231
WriteUnlock(t) ==
    /\ th[t].pc = "w_unlock"
    /\ mutex' = [mutex EXCEPT ![MutexOf(t)] = 0]
    /\ th' = [th EXCEPT ![t].pc = "done"]
    /\ UNCHANGED <<lastCall, legacy, clock, conf, heap, req, lastWriter>>

\* one step of a call in progress, the mutex working
CallStep(t) ==
    \/ ReadLock(t) \/ ReadCheck(t)
    \/ ReadUnlock(t) \/ Generate(t) \/ Stamp(t) \/ Sign(t) \/ Affix(t)
    \/ WriteLock(t) \/ WriteToken(t) \/ WriteTime(t)
    \/ WriteUnlock(t)

\* apr_thread_mutex_lock fails (a programming or OS error)
LockFailure(t) == ReadLockFail(t) \/ WriteLockFail(t)

(* ------------------------------ the clock ------------------------------ *)
Tick ==
    /\ clock < MaxClock
    /\ clock' = clock + 1
    /\ UNCHANGED <<lastCall, legacy, conf, heap, mutex, th, req, lastWriter>>

\* the system clock is set back (NTP correction, manual change)
ClockBack ==
    /\ \E c \in 0..(clock - 1) : clock' = c
    /\ UNCHANGED <<lastCall, legacy, conf, heap, mutex, th, req, lastWriter>>

(* --------------------------- configuration ----------------------------- *)
\* random_create_config (mod_random_config.c 41-68)
random_create_config ==
    [length |-> RANDOM_LENGTH_UNSET, format |-> RANDOM_FORMAT_UNSET,
     include_timestamp |-> RANDOM_ENABLED_UNSET, prefix |-> NULLSTR, suffix |-> NULLSTR,
     ttl_seconds |-> RANDOM_TTL_UNSET, url_pattern |-> NULLSTR, token_specs |-> NULL,
     custom_alphabet |-> NULLSTR, alphabet_grouping |-> RANDOM_GROUPING_UNSET,
     expiry_seconds |-> RANDOM_EXPIRY_UNSET, encode_metadata |-> RANDOM_ENABLED_UNSET,
     signing_key |-> NULLSTR]

\* the token definition add_random_token creates before it parses the
\* key=value arguments (mod_random_config.c 336-354)
new_token_spec(var_name, cache_mutex) ==
    [var_name |-> var_name, length |-> RANDOM_LENGTH_UNSET, format |-> RANDOM_FORMAT_UNSET,
     header_name |-> NULLSTR, include_timestamp |-> RANDOM_ENABLED_UNSET,
     prefix |-> NULLSTR, suffix |-> NULLSTR, ttl_seconds |-> RANDOM_TTL_UNSET,
     cached_token |-> NULLSTR, cache_time |-> 0, cache_mutex |-> cache_mutex,
     next |-> NULL]

\* create_random_config of mod_random.c (57-63)
create_random_config == [length |-> RANDOM_LENGTH_UNSET, enabled |-> RANDOM_ENABLED_UNSET]

\* the hook of mod_random.c before any directive and any request
LegacyIdle ==
    [parent |-> create_random_config, child |-> create_random_config,
     rv |-> "none", RANDOM_STRING |-> NULLSTR]

\* a worker thread with no request in hand
IdleRequest ==
    [state |-> "none", cfg |-> "none", cur |-> NULL, results |-> << >>,
     failed |-> {}, before |-> << >>]

\* the token definitions of a list, in list order (following `next')
RECURSIVE ListFrom(_, _)
ListFrom(h, a) == IF a = NULL THEN << >> ELSE <<a>> \o ListFrom(h, h[a].next)

TokenSpecs(c) == ListFrom(heap, conf[c].token_specs)

(* ------------- concurrent calls on the definitions of one scope -------- *)
(* Worker threads interleave at every step of the call, the mutex may fail *)
(* to lock, and the clock only moves forward.                              *)
\* a scope with RandomTTL 1 and RandomTimestamp On, and one definition that
\* leaves everything to the scope defaults
InitCache ==
    /\ clock = 0
    /\ conf = ("parent" :> [random_create_config EXCEPT
                              !.ttl_seconds = 1, !.include_timestamp = 1,
                              !.token_specs = 1])
    /\ heap = << new_token_spec(Atom("name", 1), 1) >>
    /\ mutex = <<0>>
    /\ th = [t \in Threads |-> IdleThread]
    /\ req = [t \in Threads |-> IdleRequest]
    /\ lastWriter = <<0>>
    /\ legacy = LegacyIdle
    /\ lastCall = NoCall

\* a worker thread calls the generator for one definition of the scope
CallAny(t) ==
    /\ \E c \in DOMAIN conf : \E a \in 1..Len(heap) : Call(t, c, a)
    /\ UNCHANGED req

\* the call returns (lines 126, 184, 236)
Return(t) ==
    /\ th[t].pc \in {"done", "failed"}
    /\ th' = [th EXCEPT ![t] = IdleThread]
    /\ UNCHANGED <<lastCall, legacy, clock, conf, heap, mutex, req, lastWriter>>

Next ==
    \/ \E t \in Threads : \/ CallAny(t) \/ CallStep(t) \/ ReadInvalidate(t)
                          \/ LockFailure(t) \/ Return(t)
    \/ Tick

Init == InitCache

Spec == Init /\ [][Next]_vars

(* ------- one thread, a clock that may be set back, a working mutex ----- *)
NextBack ==
    \/ CallAny(1) \/ CallStep(1) \/ ReadInvalidate(1) \/ Return(1)
    \/ Tick
    \/ ClockBack

SpecBack == InitCache /\ [][NextBack]_vars

(* ----------- the request hook: one call per definition, in order ------- *)
(* The hook that walks the definitions of a scope for a request is not in  *)
(* the sources at hand; it is modelled on section 4.6 of the design.       *)

\* a scope with TTL 1, signed metadata with expiry 1 and a prefix; the first
\* definition leaves everything to the scope, the second sets ttl=2,
\* timestamp=on and a suffix
InitSeq ==
    /\ clock = 0
    /\ conf = ("parent" :> [random_create_config EXCEPT
                              !.ttl_seconds = 1, !.include_timestamp = 0,
                              !.prefix = Atom("prefix", 1),
                              !.encode_metadata = 1, !.expiry_seconds = 1,
                              !.signing_key = Atom("key", 1),
                              !.token_specs = 1])
    /\ heap = << [new_token_spec(Atom("name", 1), 1) EXCEPT !.next = 2],
                 [new_token_spec(Atom("name", 2), 2) EXCEPT
                      !.ttl_seconds = 2, !.include_timestamp = 1,
                      !.suffix = Atom("suffix", 2),
                      !.header_name = Atom("header", 2)] >>
    /\ mutex = <<0, 0>>
    /\ th = [t \in Threads |-> IdleThread]
    /\ req = [t \in Threads |-> IdleRequest]
    /\ lastWriter = <<0, 0>>
    /\ legacy = LegacyIdle
    /\ lastCall = NoCall

\* a request arrives: nothing to do without definitions, or when the URL
\* pattern of the scope does not match the request path
RequestStart(t, c, path_matches) ==
    /\ req[t].state = "none" /\ th[t].pc = "idle"
    /\ req' = [req EXCEPT ![t] =
                 [IdleRequest EXCEPT !.cfg = c,
                    !.cur = conf[c].token_specs,
                    !.state = IF conf[c].token_specs = NULL
                                 \/ (conf[c].url_pattern # NULLSTR /\ ~path_matches)
                              THEN "end" ELSE "run"]]
    /\ UNCHANGED <<lastCall, legacy, clock, conf, heap, mutex, th, lastWriter>>

\* the hook calls the generator for the next definition
RequestCall(t) ==
    /\ req[t].state = "run" /\ req[t].cur # NULL
    /\ Call(t, req[t].cfg, req[t].cur)
    /\ req' = [req EXCEPT ![t].before = heap]

\* the call returned: a token is added to the results, a NULL is not, and
\* the hook goes on to the next definition
RequestEmit(t) ==
    /\ req[t].state = "run"
    /\ th[t].pc \in {"done", "failed"}
    /\ LET a == req[t].cur
           nxt == heap[a].next
           value == Returned(t)
       IN req' = [req EXCEPT
                    ![t].results = IF value = NULLSTR THEN @
                                   ELSE Append(@, [var_name |-> heap[a].var_name,
                                                   value |-> value,
                                                   header_name |-> heap[a].header_name]),
                    ![t].failed = IF value = NULLSTR THEN @ \cup {a} ELSE @,
                    ![t].cur = nxt,
                    ![t].state = IF nxt = NULL THEN "end" ELSE "run"]
    /\ th' = [th EXCEPT ![t] = IdleThread]
    /\ UNCHANGED <<lastCall, legacy, clock, conf, heap, mutex, lastWriter>>

\* the results are handed to the host
RequestEnd(t) ==
    /\ req[t].state = "end"
    /\ req' = [req EXCEPT ![t] = IdleRequest]
    /\ UNCHANGED <<lastCall, legacy, clock, conf, heap, mutex, th, lastWriter>>

NextSeq ==
    \/ \E c \in DOMAIN conf, m \in BOOLEAN : RequestStart(1, c, m)
    \/ RequestCall(1) \/ CallStep(1) \/ RequestEmit(1) \/ RequestEnd(1)
    \/ Tick

SpecSeq == InitSeq /\ [][NextSeq]_vars

(* ============================ claims, Spec ============================= *)
HoldsLock(t, a) == heap[a].cache_mutex # NULL /\ mutex[heap[a].cache_mutex] = t
LockFree(a) == heap[a].cache_mutex = NULL \/ mutex[heap[a].cache_mutex] = 0
Nodes == 1..Len(heap)
ReadPCs == {"r_check", "r_inval", "r_unlock"}
WritePCs == {"w_token", "w_time", "w_unlock"}
GeneratePCs == {"gen", "stamp", "sign", "affix"}

\* C2 (as claimed): a call that finds a cached value whose timestamp is later
\* than the call's own time never takes the cached value: it invalidates the
\* entry and is a miss, however small the step back of the clock.
C2_BackwardNeverHits ==
    \A t \in Threads :
        (th[t].pc = "r_unlock" /\ th[t].use_cached = 1)
            => th[t].now >= heap[th[t].spec].cache_time

\* the number a string of decimal digits stands for
RECURSIVE ParseDecimal(_)
ParseDecimal(str) ==
    IF str = << >> THEN 0
    ELSE 10 * ParseDecimal(SubSeq(str, 1, Len(str) - 1)) + (str[Len(str)].v - 48)
IsDigit(c) == c.k = "c" /\ c.v \in 48..57
\* the number of decimal digits a token starts with
StampLen(token) ==
    CHOOSE n \in 0..Len(token) :
        /\ \A q \in 1..n : IsDigit(token[q])
        /\ n = Len(token) \/ ~IsDigit(token[n + 1])
\* the seconds stamped into a token generated with the timestamp flag on
StampOf(token) == ParseDecimal(SubSeq(token, 1, StampLen(token)))
\* the token starts with decimal digits and a '-'
Stamped(token) ==
    /\ StampLen(token) > 0 /\ StampLen(token) < Len(token)
    /\ token[StampLen(token) + 1] = Chr(Dash)

\* C3: concurrent misses each return their own new token, and whenever the
\* lock of a definition is free its cell is empty or holds a token together
\* with the time of the very call that generated it; when every call has
\* finished the cell holds the pair of the thread that stored last.
C3_LastWriterWins ==
    /\ \A t \in Threads :
          (th[t].pc \in WritePCs \cup {"w_lock", "done"} /\ th[t].use_cached = 0)
              => /\ th[t].rv_random = "ok"
                 /\ Stamped(th[t].final_token)
                 /\ StampOf(th[t].final_token) = apr_time_sec(th[t].now)
    /\ \A a \in Nodes :
          LockFree(a) =>
             /\ \/ heap[a].cached_token = NULLSTR /\ heap[a].cache_time = 0
                \/ /\ Stamped(heap[a].cached_token)
                   /\ StampOf(heap[a].cached_token) = apr_time_sec(heap[a].cache_time)
             /\ \A t \in Threads :
                   ( /\ \A u \in Threads : th[u].pc \in {"done", "failed"}
                     /\ lastWriter[a] = t /\ th[t].spec = a /\ th[t].rv_write = "ok" )
                   => /\ heap[a].cached_token = th[t].final_token
                      /\ heap[a].cache_time = th[t].now

\* both threads missed on the same definition and generated different tokens
C3_Witness ==
    /\ \A t \in Threads : th[t].pc = "done" /\ th[t].rv_write = "ok" /\ th[t].spec = 1
    /\ th[1].final_token # th[2].final_token
    /\ lastWriter[1] = 1
    /\ heap[1].cached_token = th[1].final_token

\* C4: a thread holds the cache lock of a definition only between the lock
\* and the unlock of the cache read (105-122) and of the cache write
\* (227-231), never while it generates, stamps, signs or affixes the token.
C4_NoLockWhileGenerating ==
    \A t \in Threads : \A a \in Nodes :
        HoldsLock(t, a) => th[t].spec = a /\ th[t].pc \in ReadPCs \cup WritePCs

\* a thread signs its token while the other thread holds the lock it released
C4_Witness ==
    /\ th[1].pc = "sign" /\ th[1].rv_read = "ok"
    /\ HoldsLock(2, th[1].spec)

\* C7: a failed lock acquisition skips that access of the cache: the step
\* changes neither the cell nor the lock, the cell is not read, the call
\* still ends with a newly generated token (unless the CSPRNG fails), and a
\* thread that reaches an unlock holds the lock.
C7_StateInv ==
    \A t \in Threads :
        /\ th[t].pc \in {"r_unlock", "w_unlock"} => HoldsLock(t, th[t].spec)
        /\ th[t].rv_read = "fail" => th[t].use_cached = 0 /\ th[t].pc \notin ReadPCs
        /\ th[t].rv_write = "fail" => th[t].pc = "done"
        /\ (th[t].pc = "done" /\ "fail" \in {th[t].rv_read, th[t].rv_write})
              => th[t].rv_random = "ok" /\ th[t].final_token # NULLSTR

C7_SkipStep ==
    \A t \in Threads :
        ( \/ (th[t].rv_read # th'[t].rv_read /\ th'[t].rv_read = "fail")
          \/ (th[t].rv_write # th'[t].rv_write /\ th'[t].rv_write = "fail") )
            => heap' = heap /\ mutex' = mutex

C7_LockFailureSkipsCache == []C7_StateInv /\ [][C7_SkipStep]_vars

\* a call whose read lock and write lock both failed returned a token, and
\* the cell still holds what another call stored
C7_Witness ==
    /\ th[1].pc = "done" /\ th[1].rv_read = "fail" /\ th[1].rv_write = "fail"
    /\ heap[1].cached_token # NULLSTR
    /\ heap[1].cached_token # th[1].final_token

(* ------------------- the request hook of mod_random.c ------------------ *)
\* merge_random_config of mod_random.c (65-76)
merge_random_config(parent, child) ==
    [enabled |-> IF child.enabled # RANDOM_ENABLED_UNSET THEN child.enabled ELSE parent.enabled,
     length |-> IF child.length # RANDOM_LENGTH_UNSET THEN child.length ELSE parent.length]

\* generate_random_base64 (104-118): the status of apr_generate_random_bytes
\* is dropped; after a failure the buffer holds what apr_palloc returned
generate_random_base64(length, rv_ok, drawn, uninitialized) ==
    Atom("base64", IF rv_ok THEN drawn ELSE uninitialized)

\* RandomLength of mod_random.c (78-95)
LegacySetLength(scope, length) ==
    /\ legacy.RANDOM_STRING = NULLSTR
    /\ IF length < RANDOM_LENGTH_MIN \/ length > RANDOM_LENGTH_MAX
       THEN UNCHANGED legacy
       ELSE legacy' = [legacy EXCEPT ![scope].length = length]
    /\ UNCHANGED <<clock, conf, heap, mutex, th, req, lastWriter, lastCall>>

\* RandomEnabled of mod_random.c (97-102)
LegacySetEnabled(scope, flag) ==
    /\ legacy.RANDOM_STRING = NULLSTR
    /\ legacy' = [legacy EXCEPT ![scope].enabled = flag]
    /\ UNCHANGED <<clock, conf, heap, mutex, th, req, lastWriter, lastCall>>

\* random_fixups (120-148) for a request that is not a subrequest
random_fixups ==
    /\ legacy.RANDOM_STRING = NULLSTR
    /\ LET cfg == merge_random_config(legacy.parent, legacy.child)
           final_enabled == IF cfg.enabled # RANDOM_ENABLED_UNSET THEN cfg.enabled ELSE 0
           length == IF cfg.length # RANDOM_LENGTH_UNSET THEN cfg.length
                     ELSE RANDOM_LENGTH_DEFAULT
       IN /\ final_enabled # 0
          /\ \E rv_ok \in BOOLEAN, drawn \in RandomBytes, uninitialized \in RandomBytes :
               legacy' = [legacy EXCEPT
                            !.rv = IF rv_ok THEN "ok" ELSE "fail",
                            !.RANDOM_STRING =
                                generate_random_base64(length, rv_ok, drawn, uninitialized)]
    /\ UNCHANGED <<clock, conf, heap, mutex, th, req, lastWriter, lastCall>>

\* the request is over
LegacyRequestEnd ==
    /\ legacy.RANDOM_STRING # NULLSTR
    /\ legacy' = [legacy EXCEPT !.rv = "none", !.RANDOM_STRING = NULLSTR]
    /\ UNCHANGED <<clock, conf, heap, mutex, th, req, lastWriter, lastCall>>

LegacyLengths == {0, 1, RANDOM_LENGTH_MAX, RANDOM_LENGTH_MAX + 1}

NextLegacy ==
    \/ \E scope \in {"parent", "child"}, length \in LegacyLengths :
          LegacySetLength(scope, length)
    \/ \E scope \in {"parent", "child"}, flag \in {0, 1} : LegacySetEnabled(scope, flag)
    \/ random_fixups
    \/ LegacyRequestEnd

SpecLegacy == InitCache /\ [][NextLegacy]_vars

(* ========================== claims, SpecSeq ============================ *)
\* C1: sequential calls on one definition with TTL T > 0, the clock never
\* set back.  With a cached pair (X, t0) in the cell, a call at time t that
\* is past the cache read has t >= t0 and, when (t - t0) in whole seconds is
\* below T, it took X and drew nothing; otherwise it is a miss that draws
\* random bytes, and a miss that ends has replaced the pair by its own new
\* token and its own time.
C1_TTLWindow ==
    LET t == 1
        a == th[t].spec
    IN (th[t].pc # "idle" /\ cache_enabled(t)) =>
         LET X == heap[a].cached_token
             t0 == heap[a].cache_time
             T == TTLOf(t)
             age == (th[t].now - t0) \div TicksPerSec
             pastRead == \/ th[t].pc \in {"r_unlock", "w_lock", "failed"} \cup GeneratePCs
                         \/ th[t].pc = "done" /\ th[t].use_cached = 1
         IN /\ (pastRead /\ X # NULLSTR) =>
                 /\ th[t].now >= t0
                 /\ age < T => /\ th[t].use_cached = 1
                               /\ th[t].final_token = X
                               /\ th[t].rv_random = "none"
                 /\ age >= T => /\ th[t].use_cached = 0
                                /\ th[t].pc \in {"w_lock", "failed"}
                                       => th[t].rv_random # "none"
            /\ (th[t].pc = "done" /\ th[t].use_cached = 0) =>
                 /\ th[t].rv_random = "ok"
                 /\ X = th[t].final_token
                 /\ t0 = th[t].now

\* the entry of the first definition (TTL 1) has expired and the call is
\* about to replace it with a different token
C1_Witness ==
    /\ th[1].pc = "w_lock" /\ th[1].spec = 1
    /\ heap[1].cached_token # NULLSTR
    /\ heap[1].cached_token # th[1].final_token
    /\ th[1].now - heap[1].cache_time >= TicksPerSec

\* C5: a call whose CSPRNG call failed returns NULL and leaves every cache
\* cell as it was when the call began; its definition is missing from the
\* results of the request, which still hold a token for every other
\* definition of the scope, in list order.
C5_EntropyFailure ==
    LET t == 1
        r == req[t]
    IN /\ th[t].rv_random = "fail" =>
            /\ th[t].pc = "failed"
            /\ Returned(t) = NULLSTR
            /\ heap = r.before
       /\ \A a \in r.failed : \A i \in 1..Len(r.results) :
            r.results[i].var_name # heap[a].var_name
       /\ (r.state = "end" /\ r.cur = NULL) =>
            LET ok == SelectSeq(TokenSpecs(r.cfg), LAMBDA a : a \notin r.failed)
            IN /\ Len(r.results) = Len(ok)
               /\ \A i \in 1..Len(ok) :
                    /\ r.results[i].var_name = heap[ok[i]].var_name
                    /\ r.results[i].value # NULLSTR

\* the first definition failed, the second was generated and cached
C5_Witness ==
    /\ req[1].state = "end" /\ req[1].failed = {1}
    /\ Len(req[1].results) = 1
    /\ heap[1].cached_token = NULLSTR
    /\ heap[2].cached_token = req[1].results[1].value

(* ========================= claims, SpecLegacy ========================== *)
\* C6 (as claimed): no token is produced when the CSPRNG call behind it did
\* not report success, neither by random_generate_token_from_spec nor by the
\* request hook random_fixups.
C6_NoTokenWithoutEntropy ==
    /\ \A t \in Threads : th[t].rv_random = "fail" => th[t].pc = "failed"
    /\ legacy.RANDOM_STRING # NULLSTR => legacy.rv = "ok"

(* ------------------------ random_merge_config -------------------------- *)
\* a token definition without its cache cell, lock and link
Definition(node) ==
    [var_name |-> node.var_name, length |-> node.length, format |-> node.format,
     header_name |-> node.header_name, include_timestamp |-> node.include_timestamp,
     prefix |-> node.prefix, suffix |-> node.suffix, ttl_seconds |-> node.ttl_seconds]

\* a copy that takes the whole structure of src along (cache cell and lock)
copy_token_spec_shallow(src, cache_mutex) == [src EXCEPT !.next = NULL]

\* copy_token_spec (13-38); cache_mutex is the mutex apr_thread_mutex_create
\* made, or NULL when it failed
copy_token_spec(src, cache_mutex) ==
    [var_name |-> src.var_name, length |-> src.length, format |-> src.format,
     header_name |-> src.header_name, include_timestamp |-> src.include_timestamp,
     prefix |-> src.prefix, suffix |-> src.suffix, ttl_seconds |-> src.ttl_seconds,
     cached_token |-> NULLSTR, cache_time |-> 0, cache_mutex |-> cache_mutex,
     next |-> NULL]

StringFields == {"prefix", "suffix", "url_pattern", "custom_alphabet", "signing_key"}

\* a scalar merge that takes 0 for "not set" in the integer settings
merge_scalars_truthy(parent, child) ==
    [f \in DOMAIN random_create_config |->
        IF f = "token_specs" THEN NULL
        ELSE IF f \in StringFields
             THEN IF child[f] # NULLSTR THEN child[f] ELSE parent[f]
             ELSE IF child[f] > 0 THEN child[f] ELSE parent[f]]

\* random_merge_config, lines 79-97 and 100
merge_scalars(parent, child) ==
    [length |-> IF child.length # RANDOM_LENGTH_UNSET THEN child.length ELSE parent.length,
     format |-> IF child.format # RANDOM_FORMAT_UNSET THEN child.format ELSE parent.format,
     include_timestamp |-> IF child.include_timestamp # RANDOM_ENABLED_UNSET
                           THEN child.include_timestamp ELSE parent.include_timestamp,
     prefix |-> IF child.prefix # NULLSTR THEN child.prefix ELSE parent.prefix,
     suffix |-> IF child.suffix # NULLSTR THEN child.suffix ELSE parent.suffix,
     ttl_seconds |-> IF child.ttl_seconds # RANDOM_TTL_UNSET
                     THEN child.ttl_seconds ELSE parent.ttl_seconds,
     url_pattern |-> IF child.url_pattern # NULLSTR
                     THEN child.url_pattern ELSE parent.url_pattern,
     custom_alphabet |-> IF child.custom_alphabet # NULLSTR
                         THEN child.custom_alphabet ELSE parent.custom_alphabet,
     alphabet_grouping |-> IF child.alphabet_grouping # RANDOM_GROUPING_UNSET
                           THEN child.alphabet_grouping ELSE parent.alphabet_grouping,
     expiry_seconds |-> IF child.expiry_seconds # RANDOM_EXPIRY_UNSET
                        THEN child.expiry_seconds ELSE parent.expiry_seconds,
     encode_metadata |-> IF child.encode_metadata # RANDOM_ENABLED_UNSET
                         THEN child.encode_metadata ELSE parent.encode_metadata,
     signing_key |-> IF child.signing_key # NULLSTR
                     THEN child.signing_key ELSE parent.signing_key,
     token_specs |-> NULL]

\* a limit test that lets one definition too many through
at_token_limit_late(token_count) == token_count > RANDOM_MAX_TOKENS

\* the test of lines 106 and 124
at_token_limit(token_count) == token_count >= RANDOM_MAX_TOKENS

\* one of the two copy loops (104-119, 122-137), from definition `spec' on;
\* st carries the heap, the mutexes, merged->token_specs, last_spec and
\* token_count; the fail_at-th apr_thread_mutex_create of the merge fails
RECURSIVE copy_token_specs(_, _, _)
copy_token_specs(st, spec, fail_at) ==
    IF spec = NULL \/ at_token_limit(st.token_count) THEN st
    ELSE LET created == st.token_count + 1 # fail_at
             addr == Len(st.heap) + 1
             new_spec == copy_token_spec(st.heap[spec],
                                         IF created THEN Len(st.mutex) + 1 ELSE NULL)
             h1 == Append(st.heap, new_spec)
         IN copy_token_specs(
                [heap |-> IF st.token_specs = NULL THEN h1
                          ELSE [h1 EXCEPT ![st.last_spec].next = addr],
                 mutex |-> IF created THEN Append(st.mutex, 0) ELSE st.mutex,
                 token_specs |-> IF st.token_specs = NULL THEN addr ELSE st.token_specs,
                 last_spec |-> addr,
                 token_count |-> st.token_count + 1],
                st.heap[spec].next, fail_at)

\* random_merge_config (71-140)
random_merge_config(h, m, parent, child, fail_at) ==
    LET st0 == [heap |-> h, mutex |-> m, token_specs |-> NULL, last_spec |-> NULL,
                token_count |-> 0]
        st1 == copy_token_specs(st0, parent.token_specs, fail_at)
        st2 == copy_token_specs(st1, child.token_specs, fail_at)
    IN [merged |-> [merge_scalars(parent, child) EXCEPT !.token_specs = st2.token_specs],
        heap |-> st2.heap, mutex |-> st2.mutex]

\* the server merges the child scope over the parent scope
Merge ==
    /\ "merged" \notin DOMAIN conf
    /\ \E fail_at \in 0..MaxFailAt :
         LET r == random_merge_config(heap, mutex, conf["parent"], conf["child"], fail_at)
         IN /\ conf' = conf @@ ("merged" :> r.merged)
            /\ heap' = r.heap
            /\ mutex' = r.mutex
            /\ lastWriter' = lastWriter \o [i \in 1..(Len(r.heap) - Len(heap)) |-> 0]
    /\ UNCHANGED <<lastCall, legacy, clock, th, req>>

\* n definitions as add_random_token leaves them, linked in a list that
\* starts at address first
DefinitionList(n, first, length) ==
    [i \in 1..n |-> [new_token_spec(Atom("name", i), first + i - 1) EXCEPT
                        !.length = length,
                        !.next = IF i < n THEN first + i ELSE NULL]]

\* scalar settings as the directives leave them: parent values, child values
\* that are all zero, empty or Off (z = 0) or none of them (z = 1)
ScalarFields == DOMAIN random_create_config \ {"token_specs"}

ScalarValue(scope, z) ==
    [length |-> IF scope = "parent" THEN 8 + z ELSE 1 + 31 * z,
     format |-> IF z = 0 THEN RANDOM_FORMAT_BASE64
                ELSE IF scope = "parent" THEN RANDOM_FORMAT_HEX ELSE RANDOM_FORMAT_CUSTOM,
     include_timestamp |-> z,
     prefix |-> IF z = 0 THEN << >> ELSE Atom("prefix", scope),
     suffix |-> IF z = 0 THEN << >> ELSE Atom("suffix", scope),
     ttl_seconds |-> IF scope = "parent" THEN 5 * z ELSE 30 * z,
     url_pattern |-> Atom("pattern", <<scope, z>>),
     custom_alphabet |-> Atom("alphabet", <<scope, z>>),
     alphabet_grouping |-> IF scope = "parent" THEN 2 * z ELSE 4 * z,
     expiry_seconds |-> IF scope = "parent" THEN 10 * z ELSE 60 * z,
     encode_metadata |-> z,
     signing_key |-> Atom("key", <<scope, z>>),
     token_specs |-> NULL]

SetPatterns ==
    {{}, ScalarFields} \cup {{f} : f \in ScalarFields}
                       \cup {ScalarFields \ {f} : f \in ScalarFields}

ScopeConfig(scope, set, z, token_specs) ==
    [f \in DOMAIN random_create_config |->
        IF f = "token_specs" THEN token_specs
        ELSE IF f \in set THEN ScalarValue(scope, z)[f] ELSE random_create_config[f]]

\* the two scopes with pn and cn definitions, before any request
ScopesInit(parent, child, pn, cn) ==
    /\ clock = 0
    /\ conf = ("parent" :> [parent EXCEPT !.token_specs = IF pn > 0 THEN 1 ELSE NULL]) @@
              ("child" :> [child EXCEPT !.token_specs = IF cn > 0 THEN pn + 1 ELSE NULL])
    /\ heap = DefinitionList(pn, 1, 8) \o DefinitionList(cn, pn + 1, 16)
    /\ mutex = [i \in 1..(pn + cn) |-> 0]
    /\ th = [t \in Threads |-> IdleThread]
    /\ req = [t \in Threads |-> IdleRequest]
    /\ lastWriter = [i \in 1..(pn + cn) |-> 0]
    /\ legacy = LegacyIdle
    /\ lastCall = NoCall

ListSizes ==
    {0, 1, 2, RANDOM_MAX_TOKENS - 1, RANDOM_MAX_TOKENS} \X {0, 1, 2, RANDOM_MAX_TOKENS}

InitMerge ==
    \/ \E ps \in SetPatterns, cs \in SetPatterns, pz \in {0, 1}, cz \in {0, 1} :
          ScopesInit(ScopeConfig("parent", ps, pz, NULL),
                     ScopeConfig("child", cs, cz, NULL), 1, 1)
    \/ \E n \in ListSizes :
          ScopesInit(random_create_config, random_create_config, n[1], n[2])

NextMerge == Merge

SpecMerge == InitMerge /\ [][NextMerge]_vars

\* two small scopes with a cache TTL, requests before and after the merge
InitMergeCache ==
    \E cn \in {0, 1} :
        ScopesInit([random_create_config EXCEPT !.ttl_seconds = 1, !.include_timestamp = 0],
                   random_create_config, 1, cn)

\* a worker thread calls the generator for a definition of a scope's list
CallOwn(t) ==
    /\ \E c \in DOMAIN conf : \E i \in 1..Len(TokenSpecs(c)) : Call(t, c, TokenSpecs(c)[i])
    /\ UNCHANGED req

NextMergeCache ==
    \/ Merge
    \/ CallOwn(1) \/ CallStep(1) \/ Return(1)

SpecMergeCache == InitMergeCache /\ [][NextMergeCache]_vars

(* ========================== claims, SpecMerge ========================== *)
IsSet(cfg, f) == IF f \in StringFields THEN cfg[f] # NULLSTR ELSE cfg[f] # -1
Merged == "merged" \in DOMAIN conf
Min(a, b) == IF a < b THEN a ELSE b

\* C8: after the merge every scalar setting of the merged scope is the
\* child's value where the child set it (0, Off and the empty string count
\* as set) and the parent's value where the child left it unset.
C8_ChildWinsWhenSet ==
    Merged =>
        \A f \in ScalarFields :
            conf["merged"][f] = IF IsSet(conf["child"], f) THEN conf["child"][f]
                                ELSE conf["parent"][f]

\* parent sets only the length (9), child only the TTL (30): merged has both;
\* and a child that sets TTL 0 over a parent TTL of 5 gives 0
C8_Witness ==
    /\ Merged
    /\ \/ /\ conf["parent"].length = 9 /\ ~IsSet(conf["parent"], "ttl_seconds")
          /\ ~IsSet(conf["child"], "length") /\ conf["child"].ttl_seconds = 30
          /\ conf["merged"].length = 9 /\ conf["merged"].ttl_seconds = 30
       \/ /\ conf["parent"].ttl_seconds = 5 /\ conf["child"].ttl_seconds = 0
          /\ conf["merged"].ttl_seconds = 0

\* C9: the merged list holds the first min(parentCount + childCount, 50)
\* definitions of the parent's list followed by the child's list, in that
\* order, same names included; what lies beyond is left out and the merged
\* scope is there all the same.
C9_ParentThenChildCapped ==
    Merged =>
        LET all == TokenSpecs("parent") \o TokenSpecs("child")
            m == TokenSpecs("merged")
        IN /\ Len(m) = Min(Len(all), RANDOM_MAX_TOKENS)
           /\ \A i \in 1..Len(m) : Definition(heap[m[i]]) = Definition(heap[all[i]])

\* 49 parent definitions and 2 child definitions: the 50th merged definition
\* is the child's first, which has the name of the parent's first, and the
\* child's second is dropped
C9_Witness ==
    /\ Merged
    /\ Len(TokenSpecs("parent")) = RANDOM_MAX_TOKENS - 1
    /\ Len(TokenSpecs("child")) = 2
    /\ Len(TokenSpecs("merged")) = RANDOM_MAX_TOKENS
    /\ LET last == heap[TokenSpecs("merged")[RANDOM_MAX_TOKENS]]
       IN /\ Definition(last) = Definition(heap[TokenSpecs("child")[1]])
          /\ last.var_name = heap[TokenSpecs("merged")[1]].var_name
          /\ Definition(last) # Definition(heap[TokenSpecs("merged")[1]])

(* ======================= claims, SpecMergeCache ======================== *)
ListOf(c) == {TokenSpecs(c)[i] : i \in 1..Len(TokenSpecs(c))}
Cell(node) == <<node.cached_token, node.cache_time>>
Shared(h, a) == \E b \in 1..Len(h) : b # a /\ h[b].cache_mutex = h[a].cache_mutex

\* C10 (as claimed): every definition of the merged scope has a lock of its
\* own.
C10_MergedOwnLock ==
    Merged => \A a \in ListOf("merged") :
                 heap[a].cache_mutex # NULL /\ ~Shared(heap, a)

\* the merge step: new definitions with empty cells and unshared locks, the
\* definitions, cells and locks that existed before untouched
C10_MergeStep ==
    (~Merged /\ "merged" \in DOMAIN conf') =>
        /\ \A a \in (Len(heap) + 1)..Len(heap') :
              /\ Cell(heap'[a]) = <<NULLSTR, 0>>
              /\ heap'[a].cache_mutex = NULL
                    \/ (~Shared(heap', a) /\ mutex'[heap'[a].cache_mutex] = 0)
        /\ SubSeq(heap', 1, Len(heap)) = heap
        /\ SubSeq(mutex', 1, Len(mutex)) = mutex
        /\ conf'["parent"] = conf["parent"] /\ conf'["child"] = conf["child"]

\* a cell of a scope changes only in a call made through that scope
C10_CellFrame ==
    \A c \in DOMAIN conf : \A a \in ListOf(c) :
        Cell(heap'[a]) # Cell(heap[a]) => \E t \in Threads : th[t].cfg = c

\* the lists of the scopes share no definition
C10_Disjoint ==
    \A c \in DOMAIN conf, d \in DOMAIN conf : c # d => ListOf(c) \cap ListOf(d) = {}

\* C10 (amended): a merged definition starts with an empty cell and a lock it
\* shares with no other definition, or with no lock when the lock could not
\* be created; the merge changes nothing of parent and child, and afterwards
\* a cell of one scope changes only in calls through that scope.
C10_MergedIndependent ==
    /\ []C10_Disjoint
    /\ [][C10_MergeStep /\ C10_CellFrame]_vars

\* the parent's cell and the cell of its merged copy hold different tokens,
\* or the copy was filled and the parent's cell still is empty
C10_Witness ==
    /\ Merged
    /\ \E a \in ListOf("parent") : \E b \in ListOf("merged") :
          /\ Definition(heap[a]) = Definition(heap[b])
          /\ heap[b].cached_token # NULLSTR
          /\ heap[a].cached_token # heap[b].cached_token

(* ----------------------- calls of the encoders ------------------------- *)
\* byte strings: every single byte, and all strings up to MaxLen bytes over
\* a few bytes with all bits clear, all set, mixed, and sextets 62 and 63
ByteSamples == {0, 90, 165, 251, 255}
DataInputs ==
    {<<b>> : b \in 0..255} \cup UNION {[1..n -> ByteSamples] : n \in 0..MaxLen}

\* m distinct characters without '-', and with it when m = 255
Codes(m) == Str([i \in 1..m |-> IF m < 255 /\ i >= Dash THEN i + 1 ELSE i])
\* the first m capital letters
Letters(m) == Str([i \in 1..m |-> 64 + i])
\* "0123456789ABCDEF"
UpperHex == Str([i \in 1..16 |-> IF i <= 10 THEN 47 + i ELSE 54 + i])

AlphabetInputs ==
    {NULLSTR, << >>, Letters(1), Letters(2), Letters(3), Letters(4), Letters(5),
     UpperHex, Codes(17), Codes(64), Codes(254), Codes(255)}

GroupingInputs == {0, 1, 2, 3, 4, RANDOM_GROUPING_MAX}

TokenInputs == {<< >>, Str(<<97, 98, 99>>), Str(<<49, 58, 97>>)}
KeyInputs == {NULLSTR, << >>, Str(<<107>>), Str(<<107, 50>>)}
ExpiryInputs == {0, 1, 60}
TimeInputs == {0, TicksPerSec - 1, 1000 * TicksPerSec, 1000 * TicksPerSec + 1}

EncodeHex ==
    /\ lastCall = NoCall
    /\ \E data \in DataInputs :
          lastCall' = [op |-> "hex", data |-> data, out |-> random_encode_hex(data)]
    /\ UNCHANGED <<clock, conf, heap, mutex, th, req, lastWriter, legacy>>

EncodeBase64Url ==
    /\ lastCall = NoCall
    /\ \E data \in DataInputs :
          lastCall' = [op |-> "base64url", data |-> data,
                       out |-> random_encode_base64url(data)]
    /\ UNCHANGED <<clock, conf, heap, mutex, th, req, lastWriter, legacy>>

EncodeCustomAlphabet ==
    /\ lastCall = NoCall
    /\ \E data \in DataInputs, alphabet \in AlphabetInputs, grouping \in GroupingInputs :
          lastCall' = [op |-> "custom", data |-> data, alphabet |-> alphabet,
                       grouping |-> grouping,
                       out |-> random_encode_custom_alphabet(data, alphabet, grouping)]
    /\ UNCHANGED <<clock, conf, heap, mutex, th, req, lastWriter, legacy>>

EncodeWithMetadata ==
    /\ lastCall = NoCall
    /\ \E token \in TokenInputs, expiry_seconds \in ExpiryInputs,
          signing_key \in KeyInputs, time_now \in TimeInputs :
          lastCall' = [op |-> "metadata", token |-> token,
                       expiry_seconds |-> expiry_seconds, signing_key |-> signing_key,
                       time_now |-> time_now,
                       out |-> random_encode_with_metadata(token, expiry_seconds,
                                                           signing_key, time_now)]
    /\ UNCHANGED <<clock, conf, heap, mutex, th, req, lastWriter, legacy>>

NextEncode == EncodeHex \/ EncodeBase64Url \/ EncodeCustomAlphabet \/ EncodeWithMetadata

SpecEncode == InitCache /\ [][NextEncode]_vars

(* ========================= claims, SpecEncode ========================== *)
Called(op) == lastCall.op = op
LowerHex == {Chr(c) : c \in (48..57) \cup (97..102)}
HexValue(c) == IF c.v >= 97 THEN c.v - 87 ELSE c.v - 48
Count(str, code) == Cardinality({j \in DOMAIN str : str[j].v = code})
FirstColon(str) == CHOOSE p \in DOMAIN str : str[p].v = Colon /\ \A q \in 1..(p - 1) : str[q].v # Colon

\* C11: the result of random_encode_with_metadata is the decimal expiry time
\* now + expirySeconds, ':', the token, and with a non-empty key ':' and the
\* 64 lowercase hex digits of the HMAC of everything before that ':'; with
\* no key or an empty key it ends after the token.
C11_MetadataFormat ==
    Called("metadata") =>
        LET out == lastCall.out
            token == lastCall.token
            key == lastCall.signing_key
            p == FirstColon(out)
            body == p + Len(token)
        IN /\ \E q \in DOMAIN out : out[q].v = Colon
           /\ \A q \in 1..(p - 1) : out[q].v \in 48..57
           /\ ParseDecimal(SubSeq(out, 1, p - 1))
                 = apr_time_sec(lastCall.time_now) + lastCall.expiry_seconds
           /\ SubSeq(out, p + 1, body) = token
           /\ IF key # NULLSTR /\ key # << >>
              THEN /\ Len(out) = body + 1 + 64
                   /\ out[body + 1].v = Colon
                   /\ \A q \in (body + 2)..Len(out) : out[q] \in LowerHex
                   /\ SubSeq(out, body + 2, Len(out))
                         = random_encode_hex(random_hmac_sha256(key, SubSeq(out, 1, body)))
              ELSE Len(out) = body

\* sign("abc", 60, "k") at second 1000 gives "1060:abc:" and 64 hex digits
C11_Witness ==
    /\ Called("metadata")
    /\ lastCall.token = Str(<<97, 98, 99>>) /\ lastCall.expiry_seconds = 60
    /\ lastCall.signing_key = Str(<<107>>)
    /\ apr_time_sec(lastCall.time_now) = 1000
    /\ SubSeq(lastCall.out, 1, 9) = Str(<<49, 48, 54, 48, 58, 97, 98, 99, 58>>)
    /\ Len(lastCall.out) = 73

\* C12: random_encode_hex gives two characters of 0123456789abcdef per byte,
\* and each pair read as high and low nibble is the byte it came from.
C12_HexRoundTrip ==
    Called("hex") =>
        LET out == lastCall.out
            data == lastCall.data
        IN /\ Len(out) = 2 * Len(data)
           /\ \A j \in DOMAIN out : out[j] \in LowerHex
           /\ \A i \in DOMAIN data :
                 16 * HexValue(out[2 * i - 1]) + HexValue(out[2 * i]) = data[i]

\* the bytes a5 ff 00 give "a5ff00"
C12_Witness ==
    /\ Called("hex")
    /\ lastCall.data = <<165, 255, 0>>
    /\ lastCall.out = Str(<<97, 53, 102, 102, 48, 48>>)

Base64Index(c) == CHOOSE i \in 0..63 : basis_64[i + 1] = c
\* the bytes of a padded base64 string
RECURSIVE Base64Decode(_)
Base64Decode(str) ==
    IF str = << >> THEN << >>
    ELSE LET a == Base64Index(str[1])
             b == Base64Index(str[2])
         IN IF str[3].v = Equals THEN << a * 4 + b \div 16 >>
            ELSE LET c == Base64Index(str[3])
                 IN IF str[4].v = Equals
                    THEN << a * 4 + b \div 16, (b % 16) * 16 + c \div 4 >>
                    ELSE << a * 4 + b \div 16, (b % 16) * 16 + c \div 4,
                            (c % 4) * 64 + Base64Index(str[4]) >>
                         \o Base64Decode(SubSeq(str, 5, Len(str)))
\* - back to +, _ back to /, and '=' up to a multiple of four characters
RestoreBase64(str) ==
    [j \in DOMAIN str |-> IF str[j].v = Dash THEN Chr(Plus)
                          ELSE IF str[j].v = Underscore THEN Chr(Slash) ELSE str[j]]
    \o [j \in 1..((4 - (Len(str) % 4)) % 4) |-> Chr(Equals)]
IsNotPadding(c) == c.v # Equals

\* C13: random_encode_base64url gives the base64 of the input with + as -,
\* / as _ and the padding taken away; it holds no +, / or =, and with the
\* characters put back and the padding restored it is the base64 of the
\* input again, which decodes to the input.
C13_Base64Url ==
    Called("base64url") =>
        LET out == lastCall.out
            std == apr_base64_encode(lastCall.data)
            mapped == [j \in DOMAIN std |-> IF std[j].v = Plus THEN Chr(Dash)
                                            ELSE IF std[j].v = Slash THEN Chr(Underscore)
                                            ELSE std[j]]
        IN /\ out = SelectSeq(mapped, IsNotPadding)
           /\ \A j \in DOMAIN out : out[j].v \notin {Plus, Slash, Equals}
           /\ RestoreBase64(out) = std
           /\ Base64Decode(RestoreBase64(out)) = lastCall.data

\* the bytes fb ff give "-_8": a + and a / replaced and one '=' removed
C13_Witness ==
    /\ Called("base64url")
    /\ lastCall.data = <<251, 255>>
    /\ lastCall.out = Str(<<Dash, Underscore, 56>>)

ValidAlphabet(alphabet) == alphabet # NULLSTR /\ Len(alphabet) >= 2
CharsOf(str) == {str[j] : j \in DOMAIN str}
CalledCustom == Called("custom") /\ ValidAlphabet(lastCall.alphabet)
NoDash(alphabet) == Chr(Dash) \notin CharsOf(alphabet)

\* C14: every character random_encode_custom_alphabet writes is a character
\* of the alphabet, or '-' when grouping > 0.
C14_OnlyAlphabetAndSeparator ==
    CalledCustom =>
        \A j \in DOMAIN lastCall.out :
            \/ lastCall.out[j] \in CharsOf(lastCall.alphabet)
            \/ lastCall.grouping > 0 /\ lastCall.out[j].v = Dash

\* three bytes, "0123456789ABCDEF", grouping 4: six symbols and a separator;
\* and a call with five letters that leaves indexes 5..7 out
C14_Witness ==
    /\ CalledCustom
    /\ \/ /\ lastCall.alphabet = UpperHex /\ lastCall.grouping = 4
          /\ Len(lastCall.data) = 3 /\ Len(lastCall.out) = 7
          /\ lastCall.out[5].v = Dash
       \/ /\ lastCall.alphabet = Letters(5) /\ lastCall.data = <<255>>
          /\ lastCall.out = << >>

SymbolBits(alphabet_len) ==
    CHOOSE k \in 1..16 : Pow2(k) >= alphabet_len /\ Pow2(k - 1) < alphabet_len
CeilDiv(a, b) == (a + b - 1) \div b
\* the symbols of an output: all of it without grouping, else all but '-'
SymbolCount(out, grouping) ==
    IF grouping > 0 THEN Len(out) - Count(out, Dash) ELSE Len(out)

\* C15 (as claimed): n bytes give exactly ceil(8n / k) symbols, k the bits per
\* symbol of the alphabet, whatever the bytes and the alphabet.
C15_SymbolCount ==
    (CalledCustom /\ (lastCall.grouping > 0 => NoDash(lastCall.alphabet))) =>
        SymbolCount(lastCall.out, lastCall.grouping)
            = CeilDiv(8 * Len(lastCall.data), SymbolBits(Len(lastCall.alphabet)))

\* C16 (as claimed): with grouping g > 0 and S symbols the output holds
\* exactly floor((S - 1) / g) separators.
C16_SeparatorCount ==
    (CalledCustom /\ lastCall.grouping > 0 /\ NoDash(lastCall.alphabet)) =>
        LET S == SymbolCount(lastCall.out, lastCall.grouping)
        IN Count(lastCall.out, Dash)
              = IF S = 0 THEN 0 ELSE (S - 1) \div lastCall.grouping

\* C17 (as claimed): with grouping g > 0 the output does not end with a
\* separator and holds no two separators in a row.
C17_NoTrailingSeparator ==
    (CalledCustom /\ lastCall.grouping > 0 /\ NoDash(lastCall.alphabet)) =>
        LET out == lastCall.out
        IN /\ out # << >> => out[Len(out)].v # Dash
           /\ \A j \in 1..(Len(out) - 1) : ~(out[j].v = Dash /\ out[j + 1].v = Dash)

(* ------ CUSTOM format with and without an alphabet, one thread --------- *)
(* The scope has RandomFormat custom and RandomTTL 1, with or without a    *)
(* RandomAlphabet; a thread calls the generator, and before any call of    *)
(* the generator random_encode_custom_alphabet is called on its own.       *)
InitFallback ==
    /\ clock = 0
    /\ \E alphabet \in {NULLSTR, UpperHex} :
          conf = ("parent" :> [random_create_config EXCEPT
                                 !.format = RANDOM_FORMAT_CUSTOM,
                                 !.custom_alphabet = alphabet,
                                 !.ttl_seconds = 1, !.token_specs = 1])
    /\ heap = << new_token_spec(Atom("name", 1), 1) >>
    /\ mutex = <<0>>
    /\ th = [t \in Threads |-> IdleThread]
    /\ req = [t \in Threads |-> IdleRequest]
    /\ lastWriter = <<0>>
    /\ legacy = LegacyIdle
    /\ lastCall = NoCall

\* nothing has been called yet
Untouched ==
    /\ clock = 0 /\ lastCall = NoCall
    /\ \A t \in Threads : th[t] = IdleThread
    /\ \A a \in 1..Len(heap) : heap[a].cached_token = NULLSTR

NextFallback ==
    \/ Untouched /\ EncodeCustomAlphabet
    \/ lastCall = NoCall /\ (CallAny(1) \/ CallStep(1) \/ Return(1) \/ Tick)

SpecFallback == InitFallback /\ [][NextFallback]_vars

(* ========================= claims, SpecFallback ======================== *)
\* out is the lowercase hex text of data: two digits per byte, high nibble first
IsHexOf(out, data) ==
    /\ Len(out) = 2 * Len(data)
    /\ \A j \in DOMAIN out : out[j] \in LowerHex
    /\ \A i \in DOMAIN data :
          16 * HexValue(out[2 * i - 1]) + HexValue(out[2 * i]) = data[i]

\* C18 (as claimed): a Custom-format request with no alphabet, or one of
\* fewer than 2 characters, is encoded as Hex, when
\* random_encode_custom_alphabet is called directly and when the format
\* comes to random_generate_token_from_spec through the configuration.
C18_CustomFallsBackToHex ==
    /\ (Called("custom") /\ ~ValidAlphabet(lastCall.alphabet))
          => IsHexOf(lastCall.out, lastCall.data)
    /\ \A t \in Threads :
          ( /\ th[t].pc = "stamp"
            /\ final_format(th[t].spec, CfgOf(t).format) = RANDOM_FORMAT_CUSTOM
            /\ ~ValidAlphabet(CfgOf(t).custom_alphabet) )
          => th[t].random_string[1].k = "hex"

(* ------------- one thread, scopes with every kind of setting ----------- *)
(* A scope sets or leaves unset its format, timestamp flag, prefix,        *)
(* suffix, TTL and signing, and its one definition leaves everything to    *)
(* the scope or sets its own values; one thread calls the generator.       *)
\* RandomEncodeMetadata, RandomExpiry and RandomSigningKey of a scope
SigningSettings ==
    {[encode_metadata |-> RANDOM_ENABLED_UNSET, expiry_seconds |-> RANDOM_EXPIRY_UNSET,
      signing_key |-> NULLSTR],
     [encode_metadata |-> 1, expiry_seconds |-> 1, signing_key |-> Atom("key", 1)],
     [encode_metadata |-> 1, expiry_seconds |-> 1, signing_key |-> NULLSTR],
     [encode_metadata |-> 0, expiry_seconds |-> 1, signing_key |-> Atom("key", 1)],
     [encode_metadata |-> 1, expiry_seconds |-> 0, signing_key |-> Atom("key", 1)]}

ShapeConfigs ==
    {[random_create_config EXCEPT
         !.length = len, !.format = f, !.custom_alphabet = UpperHex,
         !.include_timestamp = ts,
         !.prefix = p, !.suffix = sx, !.ttl_seconds = ttl,
         !.encode_metadata = sg.encode_metadata, !.expiry_seconds = sg.expiry_seconds,
         !.signing_key = sg.signing_key, !.token_specs = 1] :
       len \in {RANDOM_LENGTH_UNSET, 32},
       f \in {RANDOM_FORMAT_UNSET, RANDOM_FORMAT_HEX, RANDOM_FORMAT_CUSTOM},
       ts \in {RANDOM_ENABLED_UNSET, 0, 1},
       p \in {NULLSTR, Atom("prefix", 1)}, sx \in {NULLSTR, Atom("suffix", 1)},
       ttl \in {RANDOM_TTL_UNSET, 1}, sg \in SigningSettings}

\* RandomAddToken with a name only, with timestamp=off ttl=0, and with
\* length=8 format=base64url timestamp=on prefix= suffix= ttl=1
ShapeDefinitions ==
    {new_token_spec(Atom("name", 1), 1),
     [new_token_spec(Atom("name", 1), 1) EXCEPT !.include_timestamp = 0, !.ttl_seconds = 0],
     [new_token_spec(Atom("name", 1), 1) EXCEPT
         !.length = 8, !.format = RANDOM_FORMAT_BASE64URL, !.include_timestamp = 1,
         !.prefix = Atom("prefix", 2), !.suffix = Atom("suffix", 2), !.ttl_seconds = 1]}

InitShape ==
    /\ clock = 0
    /\ \E config \in ShapeConfigs : conf = ("parent" :> config)
    /\ \E spec \in ShapeDefinitions : heap = << spec >>
    /\ mutex = <<0>>
    /\ th = [t \in Threads |-> IdleThread]
    /\ req = [t \in Threads |-> IdleRequest]
    /\ lastWriter = <<0>>
    /\ legacy = LegacyIdle
    /\ lastCall = NoCall

NextShape == CallAny(1) \/ CallStep(1) \/ Return(1) \/ Tick

SpecShape == InitShape /\ [][NextShape]_vars

(* ========================== claims, SpecShape ========================== *)
Encodings == {"base64", "hex", "base64url", "custom"}
\* signing applies: metadata on, expiry > 0 and a key
SigningApplies(cfg) ==
    cfg.encode_metadata = 1 /\ cfg.expiry_seconds > 0 /\ cfg.signing_key # NULLSTR
\* the signed form of B made at a clock reading c: "E:B:" and the hex HMAC
\* of "E:B" under the key of the scope
SignedAt(B, cfg, c) ==
    LET payload == FormatLong(apr_time_sec(c) + cfg.expiry_seconds)
                       \o << Chr(Colon) >> \o B
    IN payload \o << Chr(Colon) >>
       \o random_encode_hex(random_hmac_sha256(cfg.signing_key, payload))
\* prefix ++ W ++ suffix for the settings in force for thread t
Affixed(t, W) ==
    LET a == heap[th[t].spec]
        prefix == IF a.prefix # NULLSTR THEN a.prefix ELSE CfgOf(t).prefix
        suffix == IF a.suffix # NULLSTR THEN a.suffix ELSE CfgOf(t).suffix
    IN (IF prefix = NULLSTR THEN << >> ELSE prefix) \o W
       \o (IF suffix = NULLSTR THEN << >> ELSE suffix)
\* the timestamp flag in force for thread t is On
TimestampOn(t) ==
    LET a == heap[th[t].spec]
    IN IF a.include_timestamp # RANDOM_ENABLED_UNSET THEN a.include_timestamp = 1
       ELSE CfgOf(t).include_timestamp = 1

\* C20 (as claimed): on a miss, or with caching off, the value of the call is
\* prefix ++ W ++ suffix, where W is the signed form of B when signing
\* applies and B otherwise, and B is "<epochSeconds>-" and the encoded bytes
\* when the timestamp flag is On and the encoded bytes alone otherwise; and
\* the value stored in the cache is this value.
C20_TokenComposition ==
    \A t \in Threads :
        (th[t].pc \in WritePCs \cup {"w_lock", "done"} /\ th[t].use_cached = 0) =>
            /\ \E kind \in Encodings, bytes \in RandomBytes, c \in 0..clock :
                  LET encoded == Atom(kind, bytes)
                      B == IF TimestampOn(t)
                           THEN FormatLong(apr_time_sec(th[t].now)) \o << Chr(Dash) >>
                                \o encoded
                           ELSE encoded
                      W == IF SigningApplies(CfgOf(t)) THEN SignedAt(B, CfgOf(t), c) ELSE B
                  IN th[t].final_token = Affixed(t, W)
            /\ th[t].pc \in {"w_time", "w_unlock"}
                  => heap[th[t].spec].cached_token = th[t].final_token

\* the values the generator can hand to the signing step: the encoded bytes,
\* with or without the timestamp of the call in front
Unsigned(t) ==
    {Atom(kind, bytes) : kind \in Encodings, bytes \in RandomBytes}
    \cup {FormatLong(apr_time_sec(th[t].now)) \o << Chr(Dash) >> \o Atom(kind, bytes) :
             kind \in Encodings, bytes \in RandomBytes}

\* C21: after the signing step the value is the signed form "E:B:H" of the
\* generated value B exactly when metadata encoding is on, the expiry is
\* > 0 and a key is configured; otherwise it is B itself, also when metadata
\* and an expiry are set without a key, and the call then returns its token.
C21_SignedIffKeyAndExpiry ==
    \A t \in Threads :
        /\ (th[t].pc = "affix") =>
              IF SigningApplies(CfgOf(t))
              THEN \E B \in Unsigned(t), c \in 0..clock :
                      th[t].random_string = SignedAt(B, CfgOf(t), c)
              ELSE th[t].random_string \in Unsigned(t)
        /\ (th[t].pc = "done" /\ th[t].use_cached = 0) =>
              /\ th[t].final_token # NULLSTR
              /\ (SigningApplies(CfgOf(t)) <=> (Count(th[t].final_token, Colon) = 2))

\* metadata encoding and an expiry are set but no key: the call has ended
\* with an unsigned token
C21_Witness ==
    /\ th[1].pc = "done" /\ th[1].use_cached = 0
    /\ CfgOf(1).encode_metadata = 1 /\ CfgOf(1).expiry_seconds = 1
    /\ CfgOf(1).signing_key = NULLSTR
    /\ th[1].final_token # NULLSTR
    /\ Count(th[1].final_token, Colon) = 0

\* the value the definition sets when it sets one, the scope's otherwise
Resolved(own, unset, default) == IF own # unset THEN own ELSE default

\* C22: for length, format, timestamp flag, prefix, suffix and TTL the call
\* uses the definition's own value when the definition sets one (an explicit
\* 0 or Off is set) and the value of the scope otherwise: the length held by
\* the call, the encoding of the generated value, the presence of the
\* timestamp, whether the cache is consulted, and the two ends of the token.
C22_DefinitionOverridesScope ==
    \A t \in Threads :
        (th[t].pc # "idle" /\ th[t].spec # NULL) =>
            LET a == heap[th[t].spec]
                cfg == CfgOf(t)
                length == Resolved(a.length, RANDOM_LENGTH_UNSET, cfg.length)
                format == Resolved(a.format, RANDOM_FORMAT_UNSET, cfg.format)
                timestamp == Resolved(a.include_timestamp, RANDOM_ENABLED_UNSET,
                                      cfg.include_timestamp)
                prefix == Resolved(a.prefix, NULLSTR, cfg.prefix)
                suffix == Resolved(a.suffix, NULLSTR, cfg.suffix)
                ttl == Resolved(a.ttl_seconds, RANDOM_TTL_UNSET, cfg.ttl_seconds)
                token == th[t].final_token
            IN /\ length # RANDOM_LENGTH_UNSET => th[t].final_length = length
               /\ (format # RANDOM_FORMAT_UNSET /\ th[t].pc = "stamp") =>
                     th[t].random_string[1].k = EncodingOf(format, cfg.custom_alphabet)
               /\ (timestamp # RANDOM_ENABLED_UNSET /\ th[t].pc = "sign") =>
                     (Stamped(th[t].random_string) <=> timestamp = 1)
               /\ ttl # RANDOM_TTL_UNSET =>
                     /\ th[t].pc \in ReadPCs \cup WritePCs \cup {"r_lock", "w_lock"} => ttl > 0
                     /\ (th[t].pc = "done" /\ th[t].rv_write = "none"
                            /\ th[t].use_cached = 0) => ttl = 0
               /\ (th[t].pc = "done" /\ th[t].use_cached = 0) =>
                     /\ IF prefix # NULLSTR THEN SubSeq(token, 1, Len(prefix)) = prefix
                        ELSE token[1].k # "prefix"
                     /\ IF suffix # NULLSTR
                        THEN SubSeq(token, Len(token) - Len(suffix) + 1, Len(token)) = suffix
                        ELSE token[Len(token)].k # "suffix"

\* a definition with timestamp=off ttl=0 under a scope with the timestamp On
\* and a TTL of 1: the call has ended without cache and without timestamp
C22_Witness ==
    /\ th[1].pc = "done" /\ th[1].use_cached = 0 /\ th[1].rv_write = "none"
    /\ heap[1].include_timestamp = 0 /\ heap[1].ttl_seconds = 0
    /\ CfgOf(1).include_timestamp = 1 /\ CfgOf(1).ttl_seconds = 1
    /\ CfgOf(1).prefix = NULLSTR /\ ~SigningApplies(CfgOf(1))
    /\ ~Stamped(th[1].final_token)

\* a definition with length=8 and its own prefix under a scope with length 32
\* and another prefix: the call holds length 8 and ends with the definition's
C22_WitnessOwn ==
    /\ th[1].pc = "done" /\ th[1].use_cached = 0
    /\ heap[1].length = 8 /\ CfgOf(1).length = 32 /\ th[1].final_length = 8
    /\ heap[1].prefix = Atom("prefix", 2) /\ CfgOf(1).prefix = Atom("prefix", 1)
    /\ SubSeq(th[1].final_token, 1, 1) = Atom("prefix", 2)

(* ------------- one thread, values in and out of their ranges ----------- *)
(* The caller hands over any values: each of length, format, TTL, grouping *)
(* and expiry is unset, below its range, at its upper end or above it, at  *)
(* the scope and in the definition; metadata is on and a key is there, so  *)
(* that the expiry is used.                                                *)
ClampConfigs ==
    {[random_create_config EXCEPT
         !.length = len, !.format = f, !.custom_alphabet = UpperHex,
         !.ttl_seconds = ttl, !.alphabet_grouping = g, !.expiry_seconds = e,
         !.encode_metadata = 1, !.signing_key = Atom("key", 1), !.token_specs = 1] :
       len \in {RANDOM_LENGTH_UNSET, 0, RANDOM_LENGTH_MAX, RANDOM_LENGTH_MAX + 1},
       f \in {RANDOM_FORMAT_UNSET, RANDOM_FORMAT_BASE64, RANDOM_FORMAT_CUSTOM,
              RANDOM_FORMAT_CUSTOM + 1},
       ttl \in {RANDOM_TTL_UNSET, -2, RANDOM_TTL_MAX_SECONDS, RANDOM_TTL_MAX_SECONDS + 1},
       g \in {RANDOM_GROUPING_UNSET, -2, RANDOM_GROUPING_MAX, RANDOM_GROUPING_MAX + 1},
       e \in {RANDOM_EXPIRY_UNSET, -2, RANDOM_EXPIRY_MAX_SECONDS,
              RANDOM_EXPIRY_MAX_SECONDS + 1}}

ClampDefinitions ==
    {new_token_spec(Atom("name", 1), 1),
     [new_token_spec(Atom("name", 1), 1) EXCEPT
         !.length = -2, !.format = -2, !.ttl_seconds = -2],
     [new_token_spec(Atom("name", 1), 1) EXCEPT
         !.length = RANDOM_LENGTH_MAX + 1, !.format = RANDOM_FORMAT_CUSTOM + 1,
         !.ttl_seconds = RANDOM_TTL_MAX_SECONDS + 1]}

InitClamp ==
    /\ clock = 0
    /\ \E config \in ClampConfigs : conf = ("parent" :> config)
    /\ \E spec \in ClampDefinitions : heap = << spec >>
    /\ mutex = <<0>>
    /\ th = [t \in Threads |-> IdleThread]
    /\ req = [t \in Threads |-> IdleRequest]
    /\ lastWriter = <<0>>
    /\ legacy = LegacyIdle
    /\ lastCall = NoCall

SpecClamp == InitClamp /\ [][NextShape]_vars

(* ========================== claims, SpecClamp ========================== *)
\* the parameters thread t uses, with the TTL not below the given value
ParametersWithin(t, least_ttl) ==
    /\ th[t].final_length \in RANDOM_LENGTH_MIN..RANDOM_LENGTH_MAX
    /\ th[t].final_format \in RANDOM_FORMAT_BASE64..RANDOM_FORMAT_CUSTOM
    /\ th[t].final_ttl \in least_ttl..RANDOM_TTL_MAX_SECONDS
    /\ final_alphabet_grouping(CfgOf(t)) \in 0..RANDOM_GROUPING_MAX
    /\ final_expiry_seconds(CfgOf(t)) \in 0..RANDOM_EXPIRY_MAX_SECONDS
    /\ th[t].pc = "failed" => th[t].rv_random = "fail"

\* C23 (as claimed): whatever the values handed over, unset sentinels
\* included, the call uses a length in [1,1024], one of the four formats, a
\* TTL in [0,86400], a grouping in [0,128] and an expiry in [0,31536000], and
\* fails for no value.
C23_AsClaimed ==
    \A t \in Threads : th[t].pc # "idle" => ParametersWithin(t, 0)

\* C23 (amended): as claimed, except that the TTL the call uses is in
\* [0,86400] or is the unset sentinel -1, with which, as with 0, the cache is
\* not touched; the expiry a signed value carries is the time of signing
\* plus an expiry in [1,31536000].
C23_ParametersInRange ==
    \A t \in Threads :
        th[t].pc # "idle" =>
            /\ ParametersWithin(t, RANDOM_TTL_UNSET)
            /\ th[t].final_ttl <= 0 =>
                  /\ th[t].pc \notin ReadPCs \cup WritePCs \cup {"r_lock", "w_lock"}
                  /\ heap[th[t].spec].cached_token = NULLSTR
            /\ th[t].pc = "affix" =>
                  IF Count(th[t].random_string, Colon) = 0
                  THEN final_expiry_seconds(CfgOf(t)) = 0
                  ELSE \E c \in 0..clock :
                          StampOf(th[t].random_string) - apr_time_sec(c)
                              \in 1..RANDOM_EXPIRY_MAX_SECONDS

\* a scope with a length of 0 and TTL and expiry above their maxima: the call
\* used 16, 86400 and 31536000 and has ended with a token
C23_Witness ==
    /\ th[1].pc = "done" /\ th[1].final_token # NULLSTR
    /\ heap[1].length = RANDOM_LENGTH_UNSET /\ heap[1].ttl_seconds = RANDOM_TTL_UNSET
    /\ CfgOf(1).length = 0 /\ th[1].final_length = RANDOM_LENGTH_DEFAULT
    /\ CfgOf(1).ttl_seconds = RANDOM_TTL_MAX_SECONDS + 1
    /\ th[1].final_ttl = RANDOM_TTL_MAX_SECONDS
    /\ CfgOf(1).expiry_seconds = RANDOM_EXPIRY_MAX_SECONDS + 1
    /\ StampOf(th[1].final_token) \in
          {RANDOM_EXPIRY_MAX_SECONDS, RANDOM_EXPIRY_MAX_SECONDS + 1}
(* ------- two threads, two definitions, every thread keeps running ------ *)
(* The scheduler lets every thread take its next step, and a lock that is  *)
(* free again and again is granted to a thread that waits for it; the      *)
(* mutex works.  The clock stands still; the cell of the                   *)
(* first definition holds an entry made before the clock was set back by   *)
(* a second.                                                               *)
InitLive ==
    /\ clock = 0
    /\ conf = ("parent" :> [random_create_config EXCEPT
                              !.ttl_seconds = 1, !.include_timestamp = 0,
                              !.token_specs = 1])
    /\ heap = << [new_token_spec(Atom("name", 1), 1) EXCEPT
                      !.next = 2, !.cached_token = Atom("base64", 0),
                      !.cache_time = TicksPerSec],
                 new_token_spec(Atom("name", 2), 2) >>
    /\ mutex = <<0, 0>>
    /\ th = [t \in Threads |-> IdleThread]
    /\ req = [t \in Threads |-> IdleRequest]
    /\ lastWriter = <<0, 0>>
    /\ legacy = LegacyIdle
    /\ lastCall = NoCall

\* a step of thread t that needs no lock to be free
Running(t) ==
    \/ ReadCheck(t) \/ ReadInvalidate(t) \/ ReadUnlock(t)
    \/ Generate(t) \/ Stamp(t) \/ Sign(t) \/ Affix(t)
    \/ WriteToken(t) \/ WriteTime(t) \/ WriteUnlock(t)
    \/ Return(t)

Fairness ==
    \A t \in Threads :
        /\ WF_vars(Running(t))
        /\ SF_vars(ReadLock(t))
        /\ SF_vars(WriteLock(t))

NextLive ==
    \E t \in Threads : \/ CallAny(t) \/ CallStep(t) \/ ReadInvalidate(t)
                        \/ Return(t)

SpecLive == InitLive /\ [][NextLive]_vars /\ Fairness

(* ========================= claims, SpecLive ============================ *)
LocksHeld(t) == {a \in Nodes : HoldsLock(t, a)}

C27_LockInv ==
    /\ \A t \in Threads :
          /\ Cardinality(LocksHeld(t)) <= 1
          /\ th[t].pc \in ReadPCs \cup WritePCs => LocksHeld(t) = {th[t].spec}
          /\ th[t].pc \notin ReadPCs \cup WritePCs => LocksHeld(t) = {}
    /\ \A t, u \in Threads :
          (t # u /\ th[t].pc \in ReadPCs \cup WritePCs /\ th[u].pc \in ReadPCs \cup WritePCs)
              => th[t].spec # th[u].spec

\* C27: a thread holds the lock of the definition it reads or writes and no
\* other, two threads are never between lock and unlock of the same
\* definition, a thread outside these steps (generating, done, failed,
\* returned) holds no lock, and every call that has started returns.
C27_CallsReturn ==
    /\ []C27_LockInv
    /\ \A t \in Threads : (th[t].pc # "idle") ~> (th[t].pc = "idle")

\* a thread has invalidated an entry from the future and is about to unlock,
\* while the other thread waits for the same lock
C27_Witness ==
    /\ th[1].pc = "r_unlock" /\ th[1].use_cached = 0
    /\ heap[th[1].spec].cached_token = NULLSTR /\ lastWriter[th[1].spec] = 1
    /\ HoldsLock(1, th[1].spec)
    /\ th[2].pc = "r_lock" /\ th[2].spec = th[1].spec

(* ===================== claims, SpecShape: the hit ======================= *)
\* a step of thread t on the hit path
HitStep(t) ==
    (th'[t] # th[t] /\ th'[t].use_cached = 1) =>
        /\ heap' = heap
        /\ th[t].pc \in {"r_check", "r_unlock", "done"}
        /\ th[t].pc = "r_check" =>
              /\ th'[t].pc = "r_unlock"
              /\ th'[t].final_token = heap[th[t].spec].cached_token
              /\ th'[t].final_token # NULLSTR
        /\ th[t].pc = "r_unlock" =>
              /\ th'[t].pc = "done"
              /\ th'[t].final_token = th[t].final_token

\* C25: on a hit the call takes the string of the cell as it is stored, goes
\* to DONE with it, and none of its steps changes the cell's value or time.
C25_HitReturnsStored == [][\A t \in Threads : HitStep(t)]_vars

\* a hit at a later reading of the clock than the one in the cell: the call
\* has ended with the stored string, which has its prefix once, and the cell
\* still has the older time
C25_Witness ==
    /\ th[1].pc = "done" /\ th[1].use_cached = 1
    /\ th[1].final_token = heap[1].cached_token
    /\ heap[1].cache_time < th[1].now
    /\ final_prefix(1, CfgOf(1).prefix) # NULLSTR
    /\ Cardinality({j \in DOMAIN th[1].final_token : th[1].final_token[j].k = "prefix"}) = 1

\* the expiry time a signed token carries: the decimal number that follows
\* the prefix
EmbeddedExpiry(t) ==
    LET token == th[t].final_token
        prefix == final_prefix(th[t].spec, CfgOf(t).prefix)
        signed == IF prefix # NULLSTR THEN SubSeq(token, Len(prefix) + 1, Len(token))
                  ELSE token
    IN StampOf(signed)

\* C28 (as claimed): with signing active a call that has read the clock ends
\* with a token, new or from the cache, whose embedded expiry time is later
\* than the second the call read.
C28_ReturnedUnexpired ==
    \A t \in Threads :
        (th[t].pc = "done" /\ SigningApplies(CfgOf(t))
           /\ (th[t].final_ttl > 0 \/ TimestampOf(t) # 0)) =>
            EmbeddedExpiry(t) > apr_time_sec(th[t].now)

\* the same for the calls that generate their token
C28_FreshUnexpired ==
    \A t \in Threads :
        (th[t].pc = "done" /\ SigningApplies(CfgOf(t)) /\ th[t].use_cached = 0
           /\ (th[t].final_ttl > 0 \/ TimestampOf(t) # 0)) =>
            EmbeddedExpiry(t) > apr_time_sec(th[t].now)

\* C30 (as claimed): the value that leaves the timestamp step starts with
\* "<epochSeconds>-" exactly when the timestamp flag in force is On; with the
\* flag Off, or set neither by the definition nor by the scope, it is the
\* encoded value alone.
C30_TimestampOnlyWhenOn ==
    \A t \in Threads :
        th[t].pc = "sign" =>
            IF TimestampOn(t)
            THEN th[t].random_string =
                     FormatLong(apr_time_sec(th[t].now)) \o << Chr(Dash) >>
                         \o Atom(th[t].random_string[Len(th[t].random_string)].k,
                                 th[t].random_string[Len(th[t].random_string)].v)
            ELSE Len(th[t].random_string) = 1 /\ ~Stamped(th[t].random_string)

\* the same with the flag set, On or Off, by the definition or the scope
C30_TimestampWhenSet ==
    \A t \in Threads :
        (th[t].pc = "sign" /\ TimestampOf(t) # RANDOM_ENABLED_UNSET) =>
            (Stamped(th[t].random_string) <=> TimestampOn(t))

(* ====================== claims, Spec: the call path ===================== *)
\* C29 (as claimed): with a clock that only moves forward no call finds a
\* cache entry whose time is later than its own and takes the invalidation
\* branch (lines 110-114); an entry is cleared or replaced by a call that
\* found the cell empty or the entry expired only.
C29_NoInvalidation == \A t \in Threads : th[t].pc # "r_inval"

\* the steps of a call in the order of the state machine: START is "idle",
\* RESOLVE and the cache lookup are "r_lock" .. "r_unlock", a hit goes from
\* "r_unlock" to "done"; GENERATE and ENCODE are "gen", TIMESTAMP "stamp",
\* SIGN "sign", AFFIX "affix", CACHE_WRITE "w_lock" .. "w_unlock"
PathSteps ==
    {<<"idle", "r_lock">>, <<"idle", "gen">>,
     <<"r_lock", "r_check">>, <<"r_lock", "gen">>,
     <<"r_check", "r_unlock">>, <<"r_check", "r_inval">>, <<"r_inval", "r_unlock">>,
     <<"r_unlock", "done">>, <<"r_unlock", "gen">>,
     <<"gen", "stamp">>, <<"gen", "failed">>,
     <<"stamp", "sign">>, <<"sign", "affix">>,
     <<"affix", "w_lock">>, <<"affix", "done">>,
     <<"w_lock", "w_token">>, <<"w_lock", "done">>,
     <<"w_token", "w_time">>, <<"w_time", "w_unlock">>, <<"w_unlock", "done">>,
     <<"done", "idle">>, <<"failed", "idle">>}

\* one step of thread t along the path
PathStep(t) ==
    /\ th'[t].pc # th[t].pc => <<th[t].pc, th'[t].pc>> \in PathSteps
    \* a hit ends the call, a miss goes on to GENERATE
    /\ (th[t].pc = "r_unlock" /\ th'[t].pc # "r_unlock") =>
          (th'[t].pc = "done" <=> th[t].use_cached = 1)
    \* the cache is read and written only with a positive TTL
    /\ th'[t].pc \in {"r_lock", "w_lock"} => th'[t].final_ttl > 0
    \* DONE with a token
    /\ th'[t].pc = "done" => th'[t].final_token # NULLSTR
    \* FAILED without one, from GENERATE with a failing CSPRNG only
    /\ th'[t].pc = "failed" =>
          /\ th[t].pc \in {"gen", "failed"}
          /\ th'[t].rv_random = "fail"
          /\ th'[t].final_token = NULLSTR

\* C24: every call goes START, RESOLVE, then on a hit DONE, and on a miss
\* GENERATE, ENCODE, TIMESTAMP, SIGN, AFFIX, CACHE_WRITE, DONE in this
\* order (the cache steps only with a positive TTL and a working lock); it
\* is in DONE with a token or in FAILED without one, and FAILED is entered
\* from GENERATE with a failing CSPRNG only, never after a lock failure.
C24_CallPath == [][\A t \in Threads : PathStep(t)]_vars

\* both locks failed and the call has ended with a token
C24_Witness ==
    /\ th[1].pc = "done" /\ th[1].rv_read = "fail" /\ th[1].rv_write = "fail"
    /\ th[1].final_token # NULLSTR

(* ---------------------- the directive handlers ------------------------- *)
(* The host calls a handler for every directive of a scope, with the text  *)
(* of the argument; the handler returns NULL or an error message.  An      *)
(* error message is the atom "error" with the line of the return.          *)
RANDOM_ALPHABET_MAX_SIZE == 256
RANDOM_ALPHABET_MIN_SIZE == 2

\* the number of decimal digits a string starts with
LeadingDigits(str) ==
    CHOOSE n \in 0..Len(str) :
        /\ \A q \in 1..n : str[q].v \in 48..57
        /\ n = Len(str) \/ str[n + 1].v \notin 48..57

\* isspace
RECURSIVE SkipSpace(_)
SkipSpace(str) ==
    IF str # << >> /\ str[1].v \in {32, 9, 10, 11, 12, 13} THEN SkipSpace(Tail(str)) ELSE str

\* strtol(arg, &endptr, 10): blanks, a sign and digits; without a digit the
\* value is 0 and endptr is arg.  The numbers at hand are far from LONG_MAX.
strtol(arg) ==
    LET s1 == SkipSpace(arg)
        signed == s1 # << >> /\ s1[1].v \in {Dash, Plus}
        s2 == IF signed THEN Tail(s1) ELSE s1
        n == LeadingDigits(s2)
        magnitude == ParseDecimal(SubSeq(s2, 1, n))
    IN IF n = 0 THEN [value |-> 0, endptr |-> arg]
       ELSE [value |-> IF signed /\ s1[1].v = Dash THEN -magnitude ELSE magnitude,
             endptr |-> SubSeq(s2, n + 1, Len(s2))]

\* strcasecmp(a, b) == 0
tolower(c) == IF c.v \in 65..90 THEN Chr(c.v + 32) ELSE c
strcasecmp_equal(a, b) ==
    Len(a) = Len(b) /\ \A j \in DOMAIN a : tolower(a[j]) = tolower(b[j])

\* the format of a format name (158-175 and 373-385), RANDOM_FORMAT_UNSET
\* when the name is none of the four
format_of_name(arg) ==
    IF strcasecmp_equal(arg, Str(<<98, 97, 115, 101, 54, 52>>)) THEN RANDOM_FORMAT_BASE64
    ELSE IF strcasecmp_equal(arg, Str(<<104, 101, 120>>)) THEN RANDOM_FORMAT_HEX
    ELSE IF strcasecmp_equal(arg, Str(<<98, 97, 115, 101, 54, 52, 117, 114, 108>>)) THEN RANDOM_FORMAT_BASE64URL
    ELSE IF strcasecmp_equal(arg, Str(<<99, 117, 115, 116, 111, 109>>)) THEN RANDOM_FORMAT_CUSTOM
    ELSE RANDOM_FORMAT_UNSET

\* ap_pregcomp is the host's: it returns NULL when the pattern is not a
\* regular expression.  Of the syntax only the pairing of parentheses is
\* looked at here; depth is the number of groups open before str.
RECURSIVE ParenthesesPaired(_, _)
ParenthesesPaired(str, depth) ==
    IF str = << >> THEN depth = 0
    ELSE IF str[1].v = 40 THEN ParenthesesPaired(Tail(str), depth + 1)
    ELSE IF str[1].v = 41 THEN depth > 0 /\ ParenthesesPaired(Tail(str), depth - 1)
    ELSE ParenthesesPaired(Tail(str), depth)
ap_pregcomp(arg) ==
    IF ParenthesesPaired(arg, 0) THEN << [k |-> "regex", v |-> arg] >> ELSE NULLSTR

ErrorAt(line) == Atom("error", line)

\* the definitions of a scope, in list order
DefinitionsOf(h, c) ==
    LET list == ListFrom(h, conf[c].token_specs)
    IN [i \in DOMAIN list |-> h[list[i]]]

\* the number of directives handled so far
DirectivesDone == IF lastCall = NoCall THEN 0 ELSE lastCall.n

\* the host goes on reading the directives of the scope
Configuring == DirectivesDone < MaxDirectives

\* a handler ends: config is the scope as the handler leaves it, ret its
\* return value; the call is recorded with the scope as it was before
Handled(c, op, arg, config, ret) ==
    /\ conf' = [conf EXCEPT ![c] = config]
    /\ lastCall' = [op |-> op, arg |-> arg, scope |-> c, before |-> conf[c],
                    list |-> DefinitionsOf(heap, c), ret |-> ret,
                    n |-> DirectivesDone + 1]
    /\ UNCHANGED <<clock, th, req, legacy>>
\* arguments of the numeric directives
NumberArgs ==
    {<< >>,  (* "" *)
     Str(<<48>>),  (* "0" *)
     Str(<<49>>),  (* "1" *)
     Str(<<45, 49>>),  (* "-1" *)
     Str(<<49, 50, 120>>),  (* "12x" *)
     Str(<<49, 50, 56>>),  (* "128" *)
     Str(<<49, 50, 57>>),  (* "129" *)
     Str(<<49, 48, 50, 52>>),  (* "1024" *)
     Str(<<49, 48, 50, 53>>),  (* "1025" *)
     Str(<<56, 54, 52, 48, 48>>),  (* "86400" *)
     Str(<<56, 54, 52, 48, 49>>),  (* "86401" *)
     Str(<<51, 49, 53, 51, 54, 48, 48, 48>>),  (* "31536000" *)
     Str(<<51, 49, 53, 51, 54, 48, 48, 49>>)}  (* "31536001" *)

\* set_random_length (143-156)
set_random_length(c) ==
    /\ Configuring
    /\ \E arg \in NumberArgs :
          LET r == strtol(arg)
          IN IF r.endptr # << >> \/ r.value < RANDOM_LENGTH_MIN \/ r.value > RANDOM_LENGTH_MAX
             THEN Handled(c, "RandomLength", arg, conf[c], ErrorAt(150))
             ELSE Handled(c, "RandomLength", arg, [conf[c] EXCEPT !.length = r.value], NULLSTR)
    /\ UNCHANGED <<heap, mutex, lastWriter>>

\* set_random_ttl (210-222)
set_random_ttl(c) ==
    /\ Configuring
    /\ \E arg \in NumberArgs :
          LET r == strtol(arg)
          IN IF r.endptr # << >> \/ r.value < 0 \/ r.value > RANDOM_TTL_MAX_SECONDS
             THEN Handled(c, "RandomTTL", arg, conf[c], ErrorAt(217))
             ELSE Handled(c, "RandomTTL", arg, [conf[c] EXCEPT !.ttl_seconds = r.value], NULLSTR)
    /\ UNCHANGED <<heap, mutex, lastWriter>>

\* set_alphabet_grouping (257-269)
set_alphabet_grouping(c) ==
    /\ Configuring
    /\ \E arg \in NumberArgs :
          LET r == strtol(arg)
          IN IF r.endptr # << >> \/ r.value < 0 \/ r.value > RANDOM_GROUPING_MAX
             THEN Handled(c, "RandomAlphabetGrouping", arg, conf[c], ErrorAt(264))
             ELSE Handled(c, "RandomAlphabetGrouping", arg, [conf[c] EXCEPT !.alphabet_grouping = r.value], NULLSTR)
    /\ UNCHANGED <<heap, mutex, lastWriter>>

\* set_random_expiry (271-283)
set_random_expiry(c) ==
    /\ Configuring
    /\ \E arg \in NumberArgs :
          LET r == strtol(arg)
          IN IF r.endptr # << >> \/ r.value < 0 \/ r.value > RANDOM_EXPIRY_MAX_SECONDS
             THEN Handled(c, "RandomExpiry", arg, conf[c], ErrorAt(278))
             ELSE Handled(c, "RandomExpiry", arg, [conf[c] EXCEPT !.expiry_seconds = r.value], NULLSTR)
    /\ UNCHANGED <<heap, mutex, lastWriter>>
\* arguments of RandomFormat
FormatArgs ==
    {Str(<<98, 97, 115, 101, 54, 52>>),  (* "base64" *)
     Str(<<104, 101, 120>>),  (* "hex" *)
     Str(<<98, 97, 115, 101, 54, 52, 117, 114, 108>>),  (* "base64url" *)
     Str(<<99, 117, 115, 116, 111, 109>>),  (* "custom" *)
     Str(<<72, 69, 88>>),  (* "HEX" *)
     Str(<<114, 111, 116, 49, 51>>)}  (* "rot13" *)

\* set_random_format (158-175)
set_random_format(c) ==
    /\ Configuring
    /\ \E arg \in FormatArgs :
          IF format_of_name(arg) = RANDOM_FORMAT_UNSET
          THEN Handled(c, "RandomFormat", arg, conf[c], ErrorAt(171))
          ELSE Handled(c, "RandomFormat", arg,
                       [conf[c] EXCEPT !.format = format_of_name(arg)], NULLSTR)
    /\ UNCHANGED <<heap, mutex, lastWriter>>

\* set_random_timestamp (177-182); the host has parsed On or Off
set_random_timestamp(c) ==
    /\ Configuring
    /\ \E flag \in {0, 1} :
          Handled(c, "RandomTimestamp", flag,
                  [conf[c] EXCEPT !.include_timestamp = flag], NULLSTR)
    /\ UNCHANGED <<heap, mutex, lastWriter>>
\* arguments of RandomPrefix and RandomSuffix
AffixArgs ==
    {<< >>,  (* "" *)
     Str(<<112, 45>>)}  (* "p-" *)

\* set_random_prefix (184-189)
set_random_prefix(c) ==
    /\ Configuring
    /\ \E arg \in AffixArgs :
          Handled(c, "RandomPrefix", arg, [conf[c] EXCEPT !.prefix = arg], NULLSTR)
    /\ UNCHANGED <<heap, mutex, lastWriter>>

\* set_random_suffix (191-196)
set_random_suffix(c) ==
    /\ Configuring
    /\ \E arg \in AffixArgs :
          Handled(c, "RandomSuffix", arg, [conf[c] EXCEPT !.suffix = arg], NULLSTR)
    /\ UNCHANGED <<heap, mutex, lastWriter>>
\* arguments of RandomOnlyFor
PatternArgs ==
    {Str(<<94, 47, 97, 112, 105>>),  (* "^/api" *)
     Str(<<47, 97, 40, 98, 124, 99, 41>>),  (* "/a(b|c)" *)
     Str(<<40>>),  (* "(" *)
     Str(<<97, 41>>)}  (* "a)" *)

\* set_random_pattern (198-208): the field is assigned at line 201, before
\* the result of ap_pregcomp is tested
set_random_pattern(c) ==
    /\ Configuring
    /\ \E arg \in PatternArgs :
          LET config == [conf[c] EXCEPT !.url_pattern = ap_pregcomp(arg)]
          IN IF config.url_pattern = NULLSTR
             THEN Handled(c, "RandomOnlyFor", arg, config, ErrorAt(204))
             ELSE Handled(c, "RandomOnlyFor", arg, config, NULLSTR)
    /\ UNCHANGED <<heap, mutex, lastWriter>>

\* arguments of RandomAlphabet: "", "A", "AB", "ABA", "0123456789ABCDEF", 255
\* distinct characters, and 257 characters
AlphabetArgs ==
    {<< >>, Letters(1), Letters(2), Str(<<65, 66, 65>>), UpperHex, Codes(255),
     Str([i \in 1..(RANDOM_ALPHABET_MAX_SIZE + 1) |-> 1 + (i % 255)])}

\* set_random_alphabet (224-255)
set_random_alphabet(c) ==
    /\ Configuring
    /\ \E arg \in AlphabetArgs :
          IF arg = << >> THEN Handled(c, "RandomAlphabet", arg, conf[c], ErrorAt(231))
          ELSE IF Len(arg) < RANDOM_ALPHABET_MIN_SIZE
          THEN Handled(c, "RandomAlphabet", arg, conf[c], ErrorAt(236))
          ELSE IF Len(arg) > RANDOM_ALPHABET_MAX_SIZE
          THEN Handled(c, "RandomAlphabet", arg, conf[c], ErrorAt(240))
          ELSE IF Cardinality(CharsOf(arg)) < Len(arg)
          THEN Handled(c, "RandomAlphabet", arg, conf[c], ErrorAt(247))
          ELSE Handled(c, "RandomAlphabet", arg,
                       [conf[c] EXCEPT !.custom_alphabet = arg], NULLSTR)
    /\ UNCHANGED <<heap, mutex, lastWriter>>

\* set_encode_metadata (285-290); the host has parsed On or Off
set_encode_metadata(c) ==
    /\ Configuring
    /\ \E flag \in {0, 1} :
          Handled(c, "RandomEncodeMetadata", flag,
                  [conf[c] EXCEPT !.encode_metadata = flag], NULLSTR)
    /\ UNCHANGED <<heap, mutex, lastWriter>>
\* arguments of RandomSigningKey
KeyArgs ==
    {<< >>,  (* "" *)
     Str(<<107>>)}  (* "k" *)

\* set_signing_key (292-302)
set_signing_key(c) ==
    /\ Configuring
    /\ \E arg \in KeyArgs :
          IF arg = << >> THEN Handled(c, "RandomSigningKey", arg, conf[c], ErrorAt(297))
          ELSE Handled(c, "RandomSigningKey", arg,
                       [conf[c] EXCEPT !.signing_key = arg], NULLSTR)
    /\ UNCHANGED <<heap, mutex, lastWriter>>

\* apr_strtok(str, " \t", ...) called until it returns NULL: the words of
\* str; cur is the word being read
RECURSIVE apr_strtok(_, _)
apr_strtok(str, cur) ==
    IF str = << >> THEN (IF cur = << >> THEN << >> ELSE << cur >>)
    ELSE IF str[1].v \in {32, 9}
    THEN (IF cur = << >> THEN << >> ELSE << cur >>) \o apr_strtok(Tail(str), << >>)
    ELSE apr_strtok(Tail(str), Append(cur, str[1]))

\* strchr(token, '='): the index of the first '=', 0 when there is none
strchr_equals(token) ==
    IF \E p \in DOMAIN token : token[p].v = Equals
    THEN CHOOSE p \in DOMAIN token :
            token[p].v = Equals /\ \A q \in 1..(p - 1) : token[q].v # Equals
    ELSE 0

\* the loop of lines 357-411 over the key=value words: the definition with
\* the values set so far, and the error of the first word that is refused
RECURSIVE parse_token_args(_, _)
parse_token_args(spec, tokens) ==
    IF tokens = << >> THEN [spec |-> spec, ret |-> NULLSTR]
    ELSE LET token == tokens[1]
             p == strchr_equals(token)
             key == SubSeq(token, 1, p - 1)
             value == SubSeq(token, p + 1, Len(token))
             r == strtol(value)
             rest == Tail(tokens)
         IN IF p = 0 THEN [spec |-> spec, ret |-> ErrorAt(362)]
            ELSE IF strcasecmp_equal(key, Str(<<108, 101, 110, 103, 116, 104>>))
            THEN IF r.endptr # << >> \/ r.value < RANDOM_LENGTH_MIN
                    \/ r.value > RANDOM_LENGTH_MAX
                 THEN [spec |-> spec, ret |-> ErrorAt(369)]
                 ELSE parse_token_args([spec EXCEPT !.length = r.value], rest)
            ELSE IF strcasecmp_equal(key, Str(<<102, 111, 114, 109, 97, 116>>))
            THEN IF format_of_name(value) = RANDOM_FORMAT_UNSET
                 THEN [spec |-> spec, ret |-> ErrorAt(383)]
                 ELSE parse_token_args([spec EXCEPT !.format = format_of_name(value)], rest)
            ELSE IF strcasecmp_equal(key, Str(<<104, 101, 97, 100, 101, 114>>))
            THEN parse_token_args([spec EXCEPT !.header_name = value], rest)
            ELSE IF strcasecmp_equal(key, Str(<<116, 105, 109, 101, 115, 116, 97, 109, 112>>))
            THEN IF strcasecmp_equal(value, Str(<<111, 110>>))
                    \/ strcasecmp_equal(value, Str(<<49>>))
                 THEN parse_token_args([spec EXCEPT !.include_timestamp = 1], rest)
                 ELSE IF strcasecmp_equal(value, Str(<<111, 102, 102>>))
                    \/ strcasecmp_equal(value, Str(<<48>>))
                 THEN parse_token_args([spec EXCEPT !.include_timestamp = 0], rest)
                 ELSE [spec |-> spec, ret |-> ErrorAt(393)]
            ELSE IF strcasecmp_equal(key, Str(<<112, 114, 101, 102, 105, 120>>))
            THEN parse_token_args([spec EXCEPT !.prefix = value], rest)
            ELSE IF strcasecmp_equal(key, Str(<<115, 117, 102, 102, 105, 120>>))
            THEN parse_token_args([spec EXCEPT !.suffix = value], rest)
            ELSE IF strcasecmp_equal(key, Str(<<116, 116, 108>>))
            THEN IF r.endptr # << >> \/ r.value < 0 \/ r.value > RANDOM_TTL_MAX_SECONDS
                 THEN [spec |-> spec, ret |-> ErrorAt(402)]
                 ELSE parse_token_args([spec EXCEPT !.ttl_seconds = r.value], rest)
            ELSE [spec |-> spec, ret |-> ErrorAt(407)]
\* arguments of RandomAddToken
TokenArgs ==
    {<< >>,  (* "" *)
     Str(<<32, 32>>),  (* "  " *)
     Str(<<116, 111, 107>>),  (* "tok" *)
     Str(<<116, 111, 107, 32, 108, 101, 110, 103, 116, 104, 61, 51, 50>>),  (* "tok length=32" *)
     Str(<<116, 111, 107, 32, 108, 101, 110, 103, 116, 104, 61, 48>>),  (* "tok length=0" *)
     Str(<<116, 111, 107, 32, 108, 101, 110, 103, 116, 104, 61>>),  (* "tok length=" *)
     Str(<<116, 111, 107, 32, 102, 111, 114, 109, 97, 116, 61, 72, 69, 88>>),  (* "tok format=HEX" *)
     Str(<<116, 111, 107, 32, 102, 111, 114, 109, 97, 116, 61, 114, 111, 116, 49, 51>>),  (* "tok format=rot13" *)
     Str(<<116, 111, 107, 32, 116, 105, 109, 101, 115, 116, 97, 109, 112, 61, 111, 110>>),  (* "tok timestamp=on" *)
     Str(<<116, 111, 107, 32, 116, 105, 109, 101, 115, 116, 97, 109, 112, 61, 109, 97, 121, 98, 101>>),  (* "tok timestamp=maybe" *)
     Str(<<116, 111, 107, 32, 104, 101, 97, 100, 101, 114, 61, 88, 45, 84, 111, 107, 32, 112, 114, 101, 102, 105, 120, 61, 112, 45, 32, 115, 117, 102, 102, 105, 120, 61, 45, 115, 32, 116, 116, 108, 61, 54, 48>>),  (* "tok header=X-Tok prefix=p- suffix=-s ttl=60" *)
     Str(<<116, 111, 107, 32, 116, 116, 108, 61, 56, 54, 52, 48, 49>>),  (* "tok ttl=86401" *)
     Str(<<116, 111, 107, 32, 116, 116, 108, 61>>),  (* "tok ttl=" *)
     Str(<<116, 111, 107, 32, 98, 111, 103, 117, 115>>),  (* "tok bogus" *)
     Str(<<116, 111, 107, 32, 99, 111, 108, 111, 114, 61, 114, 101, 100>>),  (* "tok color=red" *)
     Str(<<116, 111, 107, 32, 108, 101, 110, 103, 116, 104, 61, 56, 32, 116, 116, 108, 61, 45, 49>>)}  (* "tok length=8 ttl=-1" *)

\* a faulty variant: the list may grow to one definition more
token_limit_reached_late(token_count) == token_count > RANDOM_MAX_TOKENS

\* the test of line 322
token_limit_reached(token_count) == token_count >= RANDOM_MAX_TOKENS

\* add_random_token (304-425), given one of the argument strings inputs;
\* apr_thread_mutex_create succeeds or fails.
\* The definition is allocated at line 336 and linked at lines 413-422.
add_random_token(c, inputs) ==
    /\ Configuring
    /\ \E args \in inputs, mutex_ok \in BOOLEAN :
           LET words == apr_strtok(args, << >>)
               token_count == Len(ListFrom(heap, conf[c].token_specs))
               a == Len(heap) + 1
               cache_mutex == IF mutex_ok THEN Len(mutex) + 1 ELSE NULL
               parsed == parse_token_args(new_token_spec(words[1], cache_mutex), Tail(words))
               last_spec == ListFrom(heap, conf[c].token_specs)[token_count]
           IN IF args = << >>
              THEN /\ Handled(c, "RandomAddToken", args, conf[c], ErrorAt(314))
                   /\ UNCHANGED <<heap, mutex, lastWriter>>
              ELSE IF token_limit_reached(token_count)
              THEN /\ Handled(c, "RandomAddToken", args, conf[c], ErrorAt(323))
                   /\ UNCHANGED <<heap, mutex, lastWriter>>
              ELSE IF words = << >>
              THEN /\ Handled(c, "RandomAddToken", args, conf[c], ErrorAt(332))
                   /\ UNCHANGED <<heap, mutex, lastWriter>>
              ELSE /\ mutex' = IF mutex_ok THEN Append(mutex, 0) ELSE mutex
                   /\ lastWriter' = Append(lastWriter, 0)
                   /\ IF parsed.ret # NULLSTR
                      THEN /\ heap' = Append(heap, parsed.spec)
                           /\ Handled(c, "RandomAddToken", args, conf[c], parsed.ret)
                      ELSE IF conf[c].token_specs = NULL
                      THEN /\ heap' = Append(heap, parsed.spec)
                           /\ Handled(c, "RandomAddToken", args,
                                      [conf[c] EXCEPT !.token_specs = a], NULLSTR)
                      ELSE /\ heap' = Append([heap EXCEPT ![last_spec].next = a], parsed.spec)
                           /\ Handled(c, "RandomAddToken", args, conf[c], NULLSTR)

\* a scope as random_create_config leaves it, with no definition yet or with
\* a list that is one short of the limit or at the limit
InitConfig ==
    /\ clock = 0
    /\ \E n \in {0, RANDOM_MAX_TOKENS - 1, RANDOM_MAX_TOKENS} :
          /\ conf = ("parent" :> [random_create_config EXCEPT
                                    !.token_specs = IF n > 0 THEN 1 ELSE NULL])
          /\ heap = DefinitionList(n, 1, 8)
          /\ mutex = [i \in 1..n |-> 0]
          /\ lastWriter = [i \in 1..n |-> 0]
    /\ th = [t \in Threads |-> IdleThread]
    /\ req = [t \in Threads |-> IdleRequest]
    /\ legacy = LegacyIdle
    /\ lastCall = NoCall

NextConfig ==
    \E c \in DOMAIN conf :
        \/ set_random_length(c) \/ set_random_format(c) \/ set_random_timestamp(c)
        \/ set_random_prefix(c) \/ set_random_suffix(c) \/ set_random_pattern(c)
        \/ set_random_ttl(c) \/ set_random_alphabet(c) \/ set_alphabet_grouping(c)
        \/ set_random_expiry(c) \/ set_encode_metadata(c) \/ set_signing_key(c)
        \/ add_random_token(c, TokenArgs)

SpecConfig == InitConfig /\ [][NextConfig]_vars

(* ========================= claims, SpecConfig ========================== *)
\* arg is a decimal number of lo..hi
NumberIn(arg, lo, hi) ==
    /\ arg # << >> /\ LeadingDigits(arg) = Len(arg)
    /\ ParseDecimal(arg) >= lo /\ ParseDecimal(arg) <= hi
IsName(str, names) == \E name \in names : strcasecmp_equal(str, name)
FormatNames == {Str(<<98, 97, 115, 101, 54, 52>>), Str(<<104, 101, 120>>), Str(<<98, 97, 115, 101, 54, 52, 117, 114, 108>>), Str(<<99, 117, 115, 116, 111, 109>>)}
\* a key=value word RandomAddToken is documented to take
WellFormedWord(token) ==
    LET p == strchr_equals(token)
        key == SubSeq(token, 1, p - 1)
        value == SubSeq(token, p + 1, Len(token))
    IN /\ p > 0
       /\ \/ IsName(key, {Str(<<108, 101, 110, 103, 116, 104>>)}) /\ NumberIn(value, 1, 1024)
          \/ IsName(key, {Str(<<116, 116, 108>>)}) /\ NumberIn(value, 0, 86400)
          \/ IsName(key, {Str(<<102, 111, 114, 109, 97, 116>>)}) /\ IsName(value, FormatNames)
          \/ IsName(key, {Str(<<116, 105, 109, 101, 115, 116, 97, 109, 112>>)})
             /\ IsName(value, {Str(<<111, 110>>), Str(<<111, 102, 102>>), Str(<<49>>), Str(<<48>>)})
          \/ IsName(key, {Str(<<104, 101, 97, 100, 101, 114>>), Str(<<112, 114, 101, 102, 105, 120>>), Str(<<115, 117, 102, 102, 105, 120>>)})
\* the value of a directive is in its documented range
InRange(op, arg) ==
    CASE op = "RandomLength" -> NumberIn(arg, 1, 1024)
      [] op = "RandomTTL" -> NumberIn(arg, 0, 86400)
      [] op = "RandomExpiry" -> NumberIn(arg, 0, 31536000)
      [] op = "RandomAlphabetGrouping" -> NumberIn(arg, 0, 128)
      [] op = "RandomAlphabet" ->
            /\ Len(arg) >= 2 /\ Len(arg) <= 256
            /\ \A i \in DOMAIN arg : \A j \in 1..(i - 1) : arg[i] # arg[j]
      [] op = "RandomSigningKey" -> arg # << >>
      [] op = "RandomOnlyFor" -> ParenthesesPaired(arg, 0)
      [] op = "RandomFormat" -> IsName(arg, FormatNames)
      [] op = "RandomAddToken" ->
            LET words == apr_strtok(arg, << >>)
            IN words # << >> /\ \A i \in 2..Len(words) : WellFormedWord(words[i])
      [] OTHER -> TRUE

\* C19 (as claimed): a directive handler that returns no error was given a
\* value in its documented range, and a handler that returns an error
\* message leaves the scope's settings and its list of definitions as they
\* were before the directive.
C19_DirectivesValidate ==
    lastCall # NoCall =>
        /\ (lastCall.ret = NULLSTR) => InRange(lastCall.op, lastCall.arg)
        /\ (lastCall.ret # NULLSTR) =>
              /\ conf[lastCall.scope] = lastCall.before
              /\ DefinitionsOf(heap, lastCall.scope) = lastCall.list

(* ------- two scopes with lists near the limit, directives and merge ---- *)
ListSizesNearLimit ==
    {<<0, 0>>, <<RANDOM_MAX_TOKENS - 1, 1>>, <<RANDOM_MAX_TOKENS, 0>>,
     <<1, RANDOM_MAX_TOKENS>>}

InitTokens ==
    \E n \in ListSizesNearLimit :
        ScopesInit(random_create_config, random_create_config, n[1], n[2])

\* RandomAddToken with no argument, a name, and a name and a bad word
FewTokenArgs ==
    {<< >>, Str(<<116, 111, 107>>), Str(<<116, 111, 107, 32, 98, 111, 103, 117, 115>>)}

NextTokens ==
    \/ add_random_token("parent", FewTokenArgs)
    \/ add_random_token("child", FewTokenArgs)
    \/ Merge

SpecTokens == InitTokens /\ [][NextTokens]_vars

(* ========================= claims, SpecTokens ========================== *)
\* C26: the list of every scope, merged scopes included, holds at most 50
\* definitions; a RandomAddToken given to a scope whose list holds 50
\* returns an error message and leaves the list as it was.
C26_AtMostFiftyDefinitions ==
    /\ \A c \in DOMAIN conf : Len(TokenSpecs(c)) <= RANDOM_MAX_TOKENS
    /\ (lastCall # NoCall /\ Len(lastCall.list) = RANDOM_MAX_TOKENS) =>
          /\ lastCall.ret # NULLSTR
          /\ DefinitionsOf(heap, lastCall.scope) = lastCall.list

\* a first RandomAddToken has made the parent's list 50 long, a second one
\* was rejected, and the merge with the child's definition holds 50 as well
C26_Witness ==
    /\ lastCall # NoCall
    /\ lastCall.arg = Str(<<116, 111, 107>>)
    /\ Len(lastCall.list) = RANDOM_MAX_TOKENS
    /\ lastCall.ret = ErrorAt(323)
    /\ Merged
    /\ lastCall.n = 2
    /\ Len(TokenSpecs("parent")) = RANDOM_MAX_TOKENS
    /\ Len(TokenSpecs("child")) = 1
    /\ Len(TokenSpecs("merged")) = RANDOM_MAX_TOKENS
    /\ Len(heap) > 2 * RANDOM_MAX_TOKENS
====
